---------------------------- MODULE Spec2Model ----------------------------
(***************************************************************************)
(* Lanesville Property Finder: the parcel ingestion chain                  *)
(* (load_parcel_data, geojson_to_df, process_features) and the cached      *)
(* nearest-parcel index (get_spatial_index and the 'Find Nearest' handler  *)
(* of main).                                                               *)
(*                                                                         *)
(* Three specifications share the module:                                  *)
(*   SpecNorm   the two feature normalisers applied to bounded batches     *)
(*   SpecLoad   the files under data/ and load_parcel_data                 *)
(*   SpecIndex  sessions, their spatial-index caches and 'Find Nearest'    *)
(* Each leaves the variables of the other two at their initial value.      *)
(***************************************************************************)
EXTENDS Integers, Sequences, FiniteSets, TLC

VARIABLES
    nPath,        \* normaliser applied: "none", "geojson", "arcgis" or "flat"
    nInput,       \* the feature batch it was applied to
    nResult,      \* what it returned: [st, rows]
    configFile,   \* data/config.json
    geojsonFile,  \* data/Greene_County_Tax_Parcels_-8841005964405968865.geojson
    dataFile,     \* data/lanesville_parcels.json
    loaded,       \* the dataset the main page shows: the last load's outcome
    memo,         \* the results @st.cache_data keeps for load_parcel_data
    numParcels,   \* st.session_state.num_parcels
    clicks,       \* number of index operations performed so far
    cache,        \* the entries of every session's "spatial_index_cache"
    built,        \* number of NearestNeighbors objects fitted so far
    prev,         \* the get_spatial_index call before the last one
    ret,          \* the last get_spatial_index call
    found,        \* outcome of the last 'Find Nearest' click
    race,         \* get_spatial_index calls in progress, step by step
    fetch,        \* the fetch_greene_county_data call in progress
    files         \* the parcel files under data/ the fetcher reads and writes

normVars  == <<nPath, nInput, nResult>>
loadVars  == <<configFile, geojsonFile, dataFile, loaded, memo, numParcels>>
indexVars == <<clicks, cache, built, prev, ret, found>>
raceVars  == <<race>>
fetchVars == <<fetch, files>>
restVars  == <<raceVars, fetchVars>>
vars      == <<nPath, nInput, nResult, configFile, geojsonFile, dataFile,
               loaded, memo, numParcels, clicks, cache, built, prev, ret, found, race, fetch,
               files>>

(***************************************************************************)
(* JSON values.  A Python value read from a source file is a record        *)
(* [k, s, n]: k is its kind, s its text when it is a str, n its value      *)
(* when it is a number.  A dict is a TLA+ record; a missing key is a field *)
(* that is not in its DOMAIN.                                              *)
(***************************************************************************)
NullV  == [k |-> "null", s |-> "", n |-> 0]
Str(x) == [k |-> "str", s |-> x, n |-> 0]
Num(i) == [k |-> "num", s |-> "", n |-> i]

\* Python truthiness of a JSON scalar: None, "" and 0 are falsy.
Truthy(v) == \/ v.k = "str" /\ v.s # ""
             \/ v.k = "num" /\ v.n # 0

\* d.get(key)
Get(d, key) == IF key \in DOMAIN d THEN d[key] ELSE NullV


\* d.get(k1, d.get(k2, ... default)): the first key that is present wins,
\* whatever its value.
RECURSIVE FirstPresent(_, _, _)
FirstPresent(d, keys, default) ==
    IF keys = <<>> THEN default
    ELSE IF Head(keys) \in DOMAIN d THEN d[Head(keys)]
    ELSE FirstPresent(d, Tail(keys), default)

\* d.get(k1) or d.get(k2) or ... or default
RECURSIVE FirstTruthy(_, _, _)
FirstTruthy(d, keys, default) ==
    IF keys = <<>> THEN default
    ELSE IF Truthy(Get(d, Head(keys))) THEN Get(d, Head(keys))
    ELSE FirstTruthy(d, Tail(keys), default)

\* sum(xs), by halves
RECURSIVE SumSeq(_)
SumSeq(xs) ==
    IF xs = <<>> THEN 0
    ELSE IF Len(xs) = 1 THEN xs[1]
    ELSE LET h == Len(xs) \div 2
         IN  SumSeq(SubSeq(xs, 1, h)) + SumSeq(SubSeq(xs, h + 1, Len(xs)))

\* sum(xs) / len(xs); the rings of the model have coordinate sums that are
\* multiples of their length, so the quotient is exact.
Mean(xs) == SumSeq(xs) \div Len(xs)

Abs(x) == IF x < 0 THEN 0 - x ELSE x

\* xs[:n]
Prefix(xs, n) == SubSeq(xs, 1, IF Len(xs) < n THEN Len(xs) ELSE n)

(***************************************************************************)
(* Text.  Only property-class codes and numeric fields are ever cut up or  *)
(* parsed, so only those strings need their characters: Chars gives the    *)
(* characters of each string the source files of the model contain.        *)
(***************************************************************************)
Chars(s) ==
    CASE s = ""     -> <<>>
      [] s = "2"    -> <<"2">>
      [] s = "21"   -> <<"2", "1">>
      [] s = "12"   -> <<"1", "2">>
      [] s = "210"  -> <<"2", "1", "0">>
      [] s = "451"  -> <<"4", "5", "1">>
      [] s = "910"  -> <<"9", "1", "0">>
      [] s = "915"  -> <<"9", "1", "5">>
      [] s = "999"  -> <<"9", "9", "9">>
      [] s = "9105" -> <<"9", "1", "0", "5">>
      [] s = "A1"   -> <<"A", "1">>
      [] s = "abc"  -> <<"a", "b", "c">>
      [] OTHER      -> <<"?">>

DigitChar(d) == <<"0", "1", "2", "3", "4", "5", "6", "7", "8", "9">>[d + 1]

\* str(n) for an int n >= 0
RECURSIVE DigitsOf(_)
DigitsOf(n) == IF n < 10 THEN <<DigitChar(n)>>
               ELSE DigitsOf(n \div 10) \o <<DigitChar(n % 10)>>

\* str(v) for v a str or an int, as characters
StrChars(v) == IF v.k = "str" THEN Chars(v.s)
               ELSE IF v.n < 0 THEN <<"-">> \o DigitsOf(-v.n)
               ELSE DigitsOf(v.n)

DigitVal(c) == CHOOSE d \in 0..9 : DigitChar(d) = c

IsDigits(cs) == cs # <<>> /\ \A i \in DOMAIN cs : \E d \in 0..9 : DigitChar(d) = cs[i]

RECURSIVE ParseDigits(_)
ParseDigits(cs) == IF cs = <<>> THEN 0
                   ELSE 10 * ParseDigits(SubSeq(cs, 1, Len(cs) - 1))
                        + DigitVal(cs[Len(cs)])

\* int(v) / float(v) of the value an "or" chain ends with: a number converts,
\* a str converts when it spells a number and raises ValueError otherwise.
ToNumber(v) ==
    IF v.k = "num" THEN [ok |-> TRUE, n |-> v.n]
    ELSE IF v.k = "str" /\ IsDigits(Chars(v.s))
         THEN [ok |-> TRUE, n |-> ParseDigits(Chars(v.s))]
    ELSE [ok |-> FALSE, n |-> 0]

(***************************************************************************)
(* Property class descriptions (greene_county_fetcher.PROPERTY_CLASS_DESC, *)
(* the same table as constants.PROPERTY_CLASS_DESC), keyed by the          *)
(* characters of the code.                                                 *)
(***************************************************************************)
PROPERTY_CLASS_DESC ==
       (<<"1", "0", "0">> :> "Agricultural")
    @@ (<<"1", "0", "5">> :> "Agricultural Vacant")
    @@ (<<"1", "1", "0">> :> "Livestock")
    @@ (<<"1", "1", "2">> :> "Dairy Farm")
    @@ (<<"1", "1", "3">> :> "Cattle Farm")
    @@ (<<"1", "1", "7">> :> "Horse Farm")
    @@ (<<"1", "2", "0">> :> "Field Crops")
    @@ (<<"2", "0", "0">> :> "Residential")
    @@ (<<"2", "1", "0">> :> "One Family Residential")
    @@ (<<"2", "2", "0">> :> "Two Family Residential")
    @@ (<<"2", "3", "0">> :> "Three Family Residential")
    @@ (<<"2", "4", "0">> :> "Rural Residence")
    @@ (<<"2", "5", "0">> :> "Estate")
    @@ (<<"2", "6", "0">> :> "Seasonal Residence")
    @@ (<<"2", "7", "0">> :> "Mobile Home")
    @@ (<<"2", "8", "0">> :> "Multiple Residences")
    @@ (<<"2", "8", "1">> :> "Multiple Res - 2 to 3 Units")
    @@ (<<"2", "8", "3">> :> "Multiple Res - 4 to 6 Units")
    @@ (<<"3", "0", "0">> :> "Vacant Land")
    @@ (<<"3", "1", "1">> :> "Vacant Land - Residential")
    @@ (<<"3", "1", "2">> :> "Vacant Land - Under 10 Acres")
    @@ (<<"3", "1", "4">> :> "Vacant Land - Rural")
    @@ (<<"3", "2", "2">> :> "Vacant Land - Over 10 Acres")
    @@ (<<"3", "2", "3">> :> "Vacant Land - Forest")
    @@ (<<"3", "3", "0">> :> "Vacant Land - Commercial")
    @@ (<<"3", "4", "0">> :> "Vacant Land - Industrial")
    @@ (<<"4", "0", "0">> :> "Commercial")
    @@ (<<"4", "1", "1">> :> "Apartments")
    @@ (<<"4", "2", "1">> :> "Restaurant")
    @@ (<<"4", "2", "2">> :> "Diner/Luncheonette")
    @@ (<<"4", "2", "5">> :> "Bar")
    @@ (<<"4", "3", "0">> :> "Motel")
    @@ (<<"4", "3", "2">> :> "Hotel")
    @@ (<<"4", "4", "9">> :> "Other Storage")
    @@ (<<"4", "6", "4">> :> "Office Building")
    @@ (<<"4", "8", "0">> :> "Multiple Use")
    @@ (<<"4", "8", "5">> :> "One Story Small Structure")
    @@ (<<"5", "0", "0">> :> "Recreation & Entertainment")
    @@ (<<"5", "3", "4">> :> "Social Organization")
    @@ (<<"5", "7", "0">> :> "Marina")
    @@ (<<"5", "8", "2">> :> "Camping Facility")
    @@ (<<"5", "9", "0">> :> "Park")
    @@ (<<"6", "0", "0">> :> "Community Service")
    @@ (<<"6", "1", "2">> :> "School")
    @@ (<<"6", "2", "0">> :> "Religious")
    @@ (<<"6", "3", "2">> :> "Health Facility")
    @@ (<<"6", "5", "1">> :> "Highway Garage")
    @@ (<<"6", "6", "2">> :> "Police/Fire Station")
    @@ (<<"7", "0", "0">> :> "Industrial")
    @@ (<<"7", "1", "0">> :> "Manufacturing")
    @@ (<<"8", "0", "0">> :> "Public Service")
    @@ (<<"8", "2", "2">> :> "Water Supply")
    @@ (<<"8", "3", "1">> :> "Telephone")
    @@ (<<"9", "0", "0">> :> "Wild/Forest/Conservation")
    @@ (<<"9", "1", "0">> :> "Private Forest")
    @@ (<<"9", "1", "1">> :> "Forest Land - Private")
    @@ (<<"9", "2", "0">> :> "State Forest")
    @@ (<<"9", "3", "0">> :> "State Owned - Other")
    @@ (<<"9", "3", "1">> :> "State Owned - Forest")
    @@ (<<"9", "4", "0">> :> "State Reforestation")
    @@ (<<"9", "4", "1">> :> "State Land - Reforestation")
    @@ (<<"9", "4", "2">> :> "State Land - Wilderness")
    @@ (<<"9", "6", "1">> :> "State Owned - Other Agency")
    @@ (<<"9", "6", "2">> :> "State Owned - DEC")
    @@ (<<"9", "6", "3">> :> "State Park")
    @@ (<<"9", "7", "0">> :> "Federal")
    @@ (<<"9", "8", "0">> :> "County Land")
    @@ (<<"9", "9", "0">> :> "Town Land")

(***************************************************************************)
(* Geometry.  A ring is a sequence of points <<x, y>> = <<lon, lat>> in    *)
(* whole coordinate units.  RingCap is the point cap of both normalisers.  *)
(***************************************************************************)
RingCap == 100


\* [c for c in ring[:100]]: capped, source order kept inside each pair.
CappedUnswapped(ring) == Prefix(ring, RingCap)

\* [[c[1], c[0]] for c in ring[:100]]
SwapCapped(ring) ==
    [i \in 1..Len(Prefix(ring, RingCap)) |-> <<ring[i][2], ring[i][1]>>]

Column(points, j) == [i \in 1..Len(points) |-> points[i][j]]

(***************************************************************************)
(* process_features (ArcGIS REST JSON).  A feature is                      *)
(* [attributes, geometry]; geometry is [kind, rings] with kind "rings"     *)
(* when the dict has a "rings" key, "other" when it is a dict without one  *)
(* and "none" when it is missing, null or empty.                           *)
(***************************************************************************)
ArcOwnerKeys == <<"OWNER", "Owner", "OWNER1", "OWNER_NAME", "NAME", "OwnerName">>
ArcClassKeys == <<"PROP_CLASS", "PropClass", "PROPERTY_CLASS", "LUC", "CLASS">>
ArcAcreKeys  == <<"ACRES", "Acres", "CALC_ACRES", "ACREAGE", "GIS_ACRES">>
ArcValueKeys == <<"TOTAL_AV", "TotalAV", "ASSESSED_VALUE", "FULL_VAL", "TOTAL_VALUE">>
ArcLandKeys  == <<"LAND_AV", "LandAV", "LAND_VALUE">>


\* The lookup without fallbacks: the exact code or "Unknown".
ClassDescriptionExactOnly(prop_class) ==
    IF prop_class \in DOMAIN PROPERTY_CLASS_DESC
    THEN PROPERTY_CLASS_DESC[prop_class]
    ELSE "Unknown"

\* The lookup with the one-character fallback tried before the two-character one.
ClassDescriptionCoarseFirst(prop_class) ==
    LET T  == PROPERTY_CLASS_DESC
        k2 == IF Len(prop_class) >= 2
              THEN SubSeq(prop_class, 1, 2) \o <<"0">>
              ELSE prop_class
        k3 == IF Len(prop_class) >= 1
              THEN <<prop_class[1]>> \o <<"0", "0">>
              ELSE <<>>
    IN  IF prop_class = <<>> THEN "Unknown"
        ELSE IF prop_class \in DOMAIN T THEN T[prop_class]
        ELSE IF k3 \in DOMAIN T THEN T[k3]
        ELSE IF k2 \in DOMAIN T THEN T[k2]
        ELSE "Unknown"

\* The three-level lookup of lines 396-404.
ClassDescription(prop_class) ==
    LET T  == PROPERTY_CLASS_DESC
        k2 == IF Len(prop_class) >= 2
              THEN SubSeq(prop_class, 1, 2) \o <<"0">>
              ELSE prop_class
        k3 == IF Len(prop_class) >= 1
              THEN <<prop_class[1]>> \o <<"0", "0">>
              ELSE <<>>
    IN  IF prop_class = <<>> THEN "Unknown"
        ELSE IF prop_class \in DOMAIN T THEN T[prop_class]
        ELSE IF k2 \in DOMAIN T THEN T[k2]
        ELSE IF k3 \in DOMAIN T THEN T[k3]
        ELSE "Unknown"

\* The geometry with the first vertex of the ring taken as its centroid.
ArcGeometryFirstVertex(geometry) ==
    IF geometry.kind = "rings" /\ geometry.rings # <<>> /\ geometry.rings[1] # <<>>
    THEN LET coords == geometry.rings[1]
         IN  [coordinates |-> SwapCapped(coords),
              longitude   |-> Num(coords[1][1]),
              latitude    |-> Num(coords[1][2])]
    ELSE [coordinates |-> <<>>, longitude |-> NullV, latitude |-> NullV]

\* Lines 407-426: coordinates and centroid of one ArcGIS geometry.
ArcGeometry(geometry) ==
    IF geometry.kind = "rings" /\ geometry.rings # <<>> /\ geometry.rings[1] # <<>>
    THEN LET coords == geometry.rings[1]
         IN  [coordinates |-> SwapCapped(coords),
              longitude   |-> Num(Mean(Column(coords, 1))),
              latitude    |-> Num(Mean(Column(coords, 2)))]
    ELSE [coordinates |-> <<>>, longitude |-> NullV, latitude |-> NullV]

\* max(0, x)
Max0(x) == IF x < 0 THEN 0 ELSE x

\* round(x, 2) of an amount x given in thousandths of a dollar: the nearest
\* whole number of cents.  The assessed values of the model are even, so
\* that 2.5 % of them never lies halfway between two cents.
Round2(x) ==
    LET a == Abs(x)
        m == (a + 5) \div 10
    IN  IF x < 0 THEN 0 - 10 * m ELSE 10 * m

\* Lines 278-438: the record of one feature; ok is FALSE when a conversion
\* raises.
ArcRecord(feature) ==
    LET attrs == feature.attributes
        pc    == StrChars(FirstTruthy(attrs, ArcClassKeys, Str("")))
        acres == ToNumber(FirstTruthy(attrs, ArcAcreKeys, Num(0)))
        value == ToNumber(FirstTruthy(attrs, ArcValueKeys, Num(0)))
        land  == ToNumber(FirstTruthy(attrs, ArcLandKeys, Num(0)))
        g     == ArcGeometry(feature.geometry)
    IN  [ok  |-> acres.ok /\ value.ok /\ land.ok,
         rec |-> [owner               |-> FirstTruthy(attrs, ArcOwnerKeys, Str("Unknown")),
                  property_class      |-> pc,
                  property_class_desc |-> Str(ClassDescription(pc)),
                  acreage             |-> acres.n,
                  assessed_value      |-> value.n,
                  land_value          |-> land.n,
                  improvement_value   |-> Max0(value.n - land.n),
                  annual_taxes        |-> Round2(25 * value.n),
                  county              |-> Str("Greene"),
                  tax_year            |-> 2024,
                  coordinates         |-> g.coordinates,
                  latitude            |-> g.latitude,
                  longitude           |-> g.longitude]]

\* df.dropna(subset=["latitude", "longitude"]) keeps the rows with both.
HasCentroid(row) == row.latitude.k # "null" /\ row.longitude.k # "null"


\* No dropna: every assembled row is returned.
KeepAll(rows) == rows

DropNa(rows) == SelectSeq(rows, HasCentroid)

\* process_features(features): the surviving rows, or "raise" when a
\* conversion raised or when the frame has no columns to drop on (no record).
ProcessFeatures(features) ==
    LET recs == [i \in 1..Len(features) |-> ArcRecord(features[i])]
    IN  IF \E i \in 1..Len(features) : ~recs[i].ok
        THEN [st |-> "raise", rows |-> <<>>]
        ELSE IF features = <<>>
        THEN [st |-> "raise", rows |-> <<>>]
        ELSE [st |-> "df", rows |-> DropNa([i \in 1..Len(features) |-> recs[i].rec])]

(***************************************************************************)
(* geojson_to_df.  A document is [type, features]; a feature is            *)
(* [properties, geometry]; geometry is [type, rings, polys] where rings is *)
(* the "coordinates" of a Polygon and polys that of a MultiPolygon.        *)
(***************************************************************************)
GeoOwnerKeys == <<"owner", "OWNER", "OWNER_NAME">>
GeoClassKeys == <<"property_class", "PROP_CLASS">>
GeoDescKeys  == <<"property_class_desc", "CLASS_DESC">>
GeoAcreKeys  == <<"acreage", "CALC_ACRES", "ACRES">>
GeoValueKeys == <<"assessed_value", "TOTAL_AV">>
GeoLandKeys  == <<"land_value", "LAND_AV">>
GeoImprKeys  == <<"improvement_value">>
GeoYearKeys  == <<"tax_year">>
GeoTaxKeys   == <<"annual_taxes">>

\* Lines 228-233: the ring the record is built from; ok is FALSE when the
\* indexing raises IndexError (a MultiPolygon whose first polygon is empty).
GeoRing(geom) ==
    IF geom.type = "Polygon"
    THEN [ok |-> TRUE, ring |-> IF geom.rings = <<>> THEN <<>> ELSE geom.rings[1]]
    ELSE IF geom.type = "MultiPolygon"
    THEN IF geom.polys = <<>> THEN [ok |-> TRUE, ring |-> <<>>]
         ELSE IF geom.polys[1] = <<>> THEN [ok |-> FALSE, ring |-> <<>>]
         ELSE [ok |-> TRUE, ring |-> geom.polys[1][1]]
    ELSE [ok |-> TRUE, ring |-> <<>>]

\* Lines 225-238: coordinates and centroid, the centroid over the capped list.
GeoGeometry(geom) ==
    LET coords == SwapCapped(GeoRing(geom).ring)
    IN  IF coords # <<>>
        THEN [coordinates |-> coords,
              latitude    |-> Num(Mean(Column(coords, 1))),
              longitude   |-> Num(Mean(Column(coords, 2)))]
        ELSE [coordinates |-> <<>>, latitude |-> NullV, longitude |-> NullV]

\* Lines 223-265: the record of one feature.  annual_taxes is kept in
\* thousandths of a dollar: float(...) never gives a missing value, so the
\* fillna of line 273 leaves it as line 254 set it.
GeoRecord(feature) ==
    LET props == feature.properties
        acres == ToNumber(FirstTruthy(props, GeoAcreKeys, Num(0)))
        value == ToNumber(FirstTruthy(props, GeoValueKeys, Num(0)))
        land  == ToNumber(FirstTruthy(props, GeoLandKeys, Num(0)))
        impr  == ToNumber(FirstTruthy(props, GeoImprKeys, Num(0)))
        year  == ToNumber(FirstTruthy(props, GeoYearKeys, Num(2024)))
        taxes == ToNumber(FirstTruthy(props, GeoTaxKeys, Num(0)))
        g     == GeoGeometry(feature.geometry)
    IN  [ok  |-> /\ GeoRing(feature.geometry).ok
                 /\ acres.ok /\ value.ok /\ land.ok
                 /\ impr.ok /\ year.ok /\ taxes.ok,
         rec |-> [owner               |-> FirstTruthy(props, GeoOwnerKeys, Str("Unknown")),
                  property_class      |-> StrChars(FirstTruthy(props, GeoClassKeys, Str(""))),
                  property_class_desc |-> FirstTruthy(props, GeoDescKeys, Str("Unknown")),
                  acreage             |-> acres.n,
                  assessed_value      |-> value.n,
                  land_value          |-> land.n,
                  improvement_value   |-> impr.n,
                  tax_year            |-> year.n,
                  annual_taxes        |-> 1000 * taxes.n,
                  coordinates         |-> g.coordinates,
                  latitude            |-> g.latitude,
                  longitude           |-> g.longitude]]

\* geojson_to_df(data): None for anything but a FeatureCollection, the
\* surviving rows otherwise ("raise" when a feature's conversion raised).
GeojsonToDf(data) ==
    LET recs == [i \in 1..Len(data.features) |-> GeoRecord(data.features[i])]
    IN  IF data.type # "FeatureCollection" THEN [st |-> "none", rows |-> <<>>]
        ELSE IF \E i \in 1..Len(data.features) : ~recs[i].ok
        THEN [st |-> "raise", rows |-> <<>>]
        ELSE [st |-> "df", rows |-> DropNa([i \in 1..Len(data.features) |-> recs[i].rec])]

(***************************************************************************)
(* The flat cache (load_parcel_data, lines 185-210).  The file holds a     *)
(* list of dicts; pd.DataFrame gives it one column per key that occurs in  *)
(* any record, and a record without the key has a missing value there.     *)
(***************************************************************************)
required_cols == {"latitude", "longitude", "owner", "parcel_id"}

Columns(batch) == UNION {DOMAIN batch[i] : i \in 1..Len(batch)}

HasLatLon(r) == Get(r, "latitude").k # "null" /\ Get(r, "longitude").k # "null"

\* .fillna(default)
FillNa(v, default) == IF v.k = "null" THEN default ELSE v

\* pd.to_numeric(column, errors='coerce').fillna(0)
CoerceNumber(v) == IF ToNumber(v).ok THEN ToNumber(v).n ELSE 0

\* Lines 194-207, for one row that survived the dropna.
FlatRow(r, cols) ==
    [parcel_id           |-> Get(r, "parcel_id"),
     owner               |-> FillNa(Get(r, "owner"), Str("Unknown")),
     acreage             |-> CoerceNumber(Get(r, "acreage")),
     assessed_value      |-> CoerceNumber(Get(r, "assessed_value")),
     property_class      |-> StrChars(FillNa(Get(r, "property_class"), Str("999"))),
     property_class_desc |-> FillNa(Get(r, "property_class_desc"), Str("Unknown")),
     mailing_zip         |-> FillNa(Get(r, "mailing_zip"), Str("")),
     coordinates         |-> IF "coordinates" \in DOMAIN r THEN r.coordinates
                             ELSE IF "coordinates" \in cols THEN <<>>
                             ELSE << <<r.latitude.n, r.longitude.n>> >>,
     latitude            |-> r.latitude,
     longitude           |-> r.longitude]

\* The columns lines 202-206 index with df[...]: a missing one is a KeyError.
indexed_cols ==
    {"acreage", "assessed_value", "property_class", "property_class_desc", "mailing_zip"}

\* Lines 185-210: "df" with the cleaned rows when the block returns them,
\* "reject" when a required column is missing, "raise" on the KeyError,
\* "empty" when no row is left.
FlatClean(batch) ==
    LET cols == Columns(batch)
        kept == SelectSeq(batch, HasLatLon)
    IN  IF ~(required_cols \subseteq cols) THEN [st |-> "reject", rows |-> <<>>]
        ELSE IF ~(indexed_cols \subseteq cols) THEN [st |-> "raise", rows |-> <<>>]
        ELSE IF kept = <<>> THEN [st |-> "empty", rows |-> <<>>]
        ELSE [st |-> "df", rows |-> [i \in 1..Len(kept) |-> FlatRow(kept[i], cols)]]

(***************************************************************************)
(* Bounded inputs of the normalisers.                                      *)
(***************************************************************************)
MaxBatch    == 2   \* features per batch
ExtraPoints == 1   \* points of the long ring beyond RingCap

Batches(S) == UNION {[1..n -> S] : n \in 0..MaxBatch}

\* n distinct points with lon # lat; coordinate sums are multiples of n.
VaryRing(n) == [i \in 1..n |-> <<2 * i, 2 * i + 1000>>]

\* RingCap distinct points followed by ExtraPoints more, far from the rest.
LongRing ==
    VaryRing(RingCap)
    \o [i \in 1..ExtraPoints |-> <<RingCap + 101 + ExtraPoints,
                                   RingCap + 1101 + ExtraPoints>>]

Tri == <<<<0, 0>>, <<6, 0>>, <<0, 9>>>>
One == <<<<4, 8>>>>

Id == [OBJECTID |-> Num(1)]

OwnerBags ==
    { [OWNER |-> Str("Doe"), OWNER_NAME |-> Str("Roe")],
      [OWNER_NAME |-> Str("Roe")],
      [OWNER |-> Str(""), OWNER_NAME |-> Str("Roe")],
      [OWNER |-> NullV, Owner |-> Str("Moe"), NAME |-> Str("Noe")],
      [OWNER1 |-> Str("Loe"), OWNER_NAME |-> Str("Roe"), NAME |-> Str("Noe")],
      [NAME |-> Str("Noe"), OwnerName |-> Str("Poe")],
      [OwnerName |-> Str("Poe")],
      [owner |-> Str("Coe"), OWNER |-> Str("Doe")],
      [owner |-> Str(""), OWNER |-> NullV, OWNER_NAME |-> Str("Roe")],
      [owner |-> NullV, OWNER |-> Str("")],
      Id }

ClassBags ==
    { [PROP_CLASS |-> Str(c)] : c \in {"910", "915", "999", "451", "A1", "", "2", "21", "9105"} }
    \cup { [PROP_CLASS |-> Num(210)],
           [PROP_CLASS |-> NullV, LUC |-> Str("915")],
           [property_class |-> Str("210"), PROP_CLASS |-> Str("910")],
           [PROP_CLASS |-> Str("210"), CLASS_DESC |-> Str("Homestead")] }

NumberBags ==
    { [TOTAL_AV |-> Num(100000), LAND_AV |-> Num(30000), ACRES |-> Num(5)],
      [TOTAL_AV |-> Num(100000), LAND_AV |-> Num(30000),
       improvement_value |-> Num(50000), annual_taxes |-> Num(3000)],
      [TOTAL_AV |-> Num(30000), LAND_AV |-> Num(100000)],
      [TOTAL_AV |-> Num(-100), LAND_AV |-> Num(-30), ACRES |-> Num(-5)],
      [TOTAL_AV |-> Str("12")],
      [ACRES |-> Str("abc")] }

AttrBags == { Id @@ b : b \in OwnerBags \cup ClassBags \cup NumberBags }

BaseBag == [OBJECTID |-> Num(1), OWNER |-> Str("Doe"), PROP_CLASS |-> Str("210")]

ArcGeoms ==
    { [kind |-> "none", rings |-> <<>>],
      [kind |-> "other", rings |-> <<>>],
      [kind |-> "rings", rings |-> <<>>],
      [kind |-> "rings", rings |-> << <<>> >>],
      [kind |-> "rings", rings |-> <<One>>],
      [kind |-> "rings", rings |-> <<Tri, One>>],
      [kind |-> "rings", rings |-> <<VaryRing(RingCap)>>],
      [kind |-> "rings", rings |-> <<LongRing>>] }

ArcFeatures ==
    { [attributes |-> a, geometry |-> [kind |-> "rings", rings |-> <<Tri>>]] : a \in AttrBags }
    \cup { [attributes |-> BaseBag, geometry |-> g] : g \in ArcGeoms }

\* The feature of the end-to-end scenario, its coordinates in thousandths
\* of a degree: -74.28 is -74280.
ScenarioFeature ==
    [attributes |-> [OWNER |-> Str("Doe, Jane"), TOTAL_AV |-> Num(100000),
                     PROP_CLASS |-> Str("210")],
     geometry |-> [kind |-> "rings",
                   rings |-> << << <<-74280, 42180>>, <<-74270, 42180>>,
                                   <<-74270, 42190>>, <<-74280, 42190>> >> >>]]

GeoGeoms ==
    { [type |-> "none", rings |-> <<>>, polys |-> <<>>],
      [type |-> "Point", rings |-> <<>>, polys |-> <<>>],
      [type |-> "Polygon", rings |-> <<>>, polys |-> <<>>],
      [type |-> "Polygon", rings |-> << <<>> >>, polys |-> <<>>],
      [type |-> "Polygon", rings |-> <<One>>, polys |-> <<>>],
      [type |-> "Polygon", rings |-> <<Tri, One>>, polys |-> <<>>],
      [type |-> "Polygon", rings |-> <<VaryRing(RingCap)>>, polys |-> <<>>],
      [type |-> "Polygon", rings |-> <<LongRing>>, polys |-> <<>>],
      [type |-> "MultiPolygon", rings |-> <<>>, polys |-> <<>>],
      [type |-> "MultiPolygon", rings |-> <<>>, polys |-> << <<>> >>],
      [type |-> "MultiPolygon", rings |-> <<>>, polys |-> << <<Tri, One>>, <<One>> >>],
      [type |-> "MultiPolygon", rings |-> <<>>, polys |-> << <<LongRing>> >>] }

GeoFeatures ==
    { [properties |-> a,
       geometry |-> [type |-> "Polygon", rings |-> <<Tri>>, polys |-> <<>>]] : a \in AttrBags }
    \cup { [properties |-> BaseBag, geometry |-> g] : g \in GeoGeoms }

GeoDocs ==
    { [type |-> "FeatureCollection", features |-> fs] : fs \in Batches(GeoFeatures) }
    \cup { [type |-> "Feature", features |-> <<>>] }

FullRecord(owner, lat) ==
    [parcel_id |-> Str("86.1-1-1"), owner |-> owner, latitude |-> lat,
     longitude |-> Num(7), acreage |-> Num(5), assessed_value |-> Num(100000),
     property_class |-> Str("210"), property_class_desc |-> Str("Homestead"),
     mailing_zip |-> Str("12450")]

FlatRecords ==
    { FullRecord(Str("Doe"), Num(5)),
      FullRecord(NullV, Num(6)),
      FullRecord(Str("Roe"), NullV),
      [FullRecord(Str("Neg"), Num(5)) EXCEPT !.acreage = Num(-5),
                                             !.assessed_value = Num(-100)],
      [parcel_id |-> Str("86.1-1-2"), latitude |-> Num(5), longitude |-> Num(7),
       acreage |-> Str("abc"), assessed_value |-> Str("12"), property_class |-> NullV,
       property_class_desc |-> NullV, mailing_zip |-> NullV],
      [parcel_id |-> Str("86.1-1-3"), owner |-> Str("Moe"), latitude |-> Num(5),
       longitude |-> Num(7)],
      [parcel_id |-> Str("86.1-1-4"), owner |-> NullV, latitude |-> Num(5)],
      [parcel_id |-> Str("86.1-1-5"), owner |-> NullV, latitude |-> Num(5),
       longitude |-> Num(7)] }

FlatBatches == Batches(FlatRecords)

FlatInputs == { [type |-> "flat", features |-> b] : b \in FlatBatches }

(***************************************************************************)
(* SpecNorm: a run starts with one batch and applies the normaliser of its *)
(* format to it.                                                           *)
(***************************************************************************)
NoFile   == [st |-> "absent", doc |-> [type |-> "none", features |-> <<>>], rows |-> <<>>]
NoResult == [st |-> "none", rows |-> <<>>]
NoIndex  == [id |-> 0, pts |-> <<>>]
NoCall   == [n |-> 0, sid |-> 0, df |-> <<>>, raised |-> FALSE, nn |-> NoIndex,
             used_cache |-> FALSE]
NoFound  == [sid |-> 0, st |-> "none", df |-> <<>>, idx |-> 0, query |-> <<0, 0>>]

NoRace   == [st |-> "idle", df |-> <<>>, before |-> {}, callers |-> <<>>,
             writes |-> <<>>]

\* A file under data/: absent, unreadable as JSON, or a list of n records
\* written by src ("old" before the run, "fetched" by it).
FileAbsent  == [st |-> "absent", n |-> 0, src |-> ""]
FileCorrupt == [st |-> "corrupt", n |-> 0, src |-> ""]
FileOf(n, src) == [st |-> "ok", n |-> n, src |-> src]

FileNames ==
    {"greene_county_parcels.json", "lanesville_parcels.json", "hunter_parcels.json"}

NoFiles  == [f \in FileNames |-> FileAbsent]

\* No fetch_greene_county_data call has started.
NoFetch  == [pc |-> "idle", use_cache |-> FALSE, max_records |-> NullV,
             cache_file |-> "", total_count |-> 0, total_to_fetch |-> 0,
             offset |-> 0, all_features |-> <<>>, requests |-> <<>>,
             counted |-> FALSE, called |-> FALSE, handed |-> <<>>,
             result |-> "pending", rows |-> 0, before |-> NoFiles]

NoInput   == [type |-> "none", features |-> <<>>]
NormIdle  == /\ nPath = "none"
             /\ nInput = NoInput
             /\ nResult = NoResult
LoadIdle  == /\ configFile = "absent"
             /\ geojsonFile = NoFile
             /\ dataFile = NoFile
             /\ loaded = [src |-> "none", rows |-> <<>>]
             /\ memo = {}
             /\ numParcels = 500
IndexIdle == /\ clicks = 0
             /\ cache = {}
             /\ built = 0
             /\ prev = NoCall
             /\ ret = NoCall
             /\ found = NoFound
RaceIdle  == race = NoRace
FetchIdle == /\ fetch = NoFetch
             /\ files = NoFiles
RestIdle  == RaceIdle /\ FetchIdle

ArcInputs ==
    { [type |-> "features", features |-> fs] : fs \in Batches(ArcFeatures) }
    \cup { [type |-> "features", features |-> <<ScenarioFeature>>] }

CallGeojsonToDf ==
    /\ nPath = "none"
    /\ nInput.type \in {"FeatureCollection", "Feature"}
    /\ nPath' = "geojson"
    /\ nResult' = GeojsonToDf(nInput)
    /\ UNCHANGED <<nInput, loadVars, indexVars, restVars>>

CallProcessFeatures ==
    /\ nPath = "none"
    /\ nInput.type = "features"
    /\ nPath' = "arcgis"
    /\ nResult' = ProcessFeatures(nInput.features)
    /\ UNCHANGED <<nInput, loadVars, indexVars, restVars>>

CallFlatClean ==
    /\ nPath = "none"
    /\ nInput.type = "flat"
    /\ nPath' = "flat"
    /\ nResult' = FlatClean(nInput.features)
    /\ UNCHANGED <<nInput, loadVars, indexVars, restVars>>

NormInit == /\ nPath = "none"
            /\ nInput \in GeoDocs \cup ArcInputs \cup FlatInputs
            /\ nResult = NoResult
            /\ LoadIdle
            /\ IndexIdle
            /\ RestIdle
NormNext == CallGeojsonToDf \/ CallProcessFeatures \/ CallFlatClean
SpecNorm == NormInit /\ [][NormNext]_vars

(***************************************************************************)
(* SpecLoad: the three files load_parcel_data reads and the body of        *)
(* load_parcel_data.  A file is [st, doc, rows]: st is "absent", "corrupt" *)
(* (json.load raises) or "ok"; doc is the parsed GeoJSON document, rows    *)
(* the parsed list of a flat cache.  configFile is "absent", "corrupt",    *)
(* "nokey" (an object without use_geojson), "true" or "false".             *)
(***************************************************************************)
ConfigStates == {"absent", "corrupt", "nokey", "true", "false"}

\* Lines 159-167.
UseGeojson(config) == config # "false"

\* generate_sample_data: one canonical record stands for the sample set.
GenerateSampleData ==
    << [parcel_id |-> Str("86.1-1-9"), owner |-> Str("Johnson Family Trust"),
        acreage |-> 5, assessed_value |-> 100000, property_class |-> <<"2", "1", "0">>,
        property_class_desc |-> Str("One Family Residential"),
        latitude |-> Num(5), longitude |-> Num(7),
        coordinates |-> << <<5, 7>> >>] >>

\* Lines 170-178: the frame the GeoJSON block returns, "skip" when it does
\* not return (file missing or disabled, unreadable, None, empty, raised).
TryGeojson(config, gfile) ==
    LET df == GeojsonToDf(gfile.doc)
    IN  IF UseGeojson(config) /\ gfile.st = "ok" /\ df.st = "df" /\ Len(df.rows) > 0
        THEN [st |-> "df", rows |-> df.rows]
        ELSE [st |-> "skip", rows |-> <<>>]

\* Lines 181-212: the same for the flat cache block.
TryFlat(dfile) ==
    LET df == FlatClean(dfile.rows)
    IN  IF dfile.st = "ok" /\ df.st = "df"
        THEN [st |-> "df", rows |-> df.rows]
        ELSE [st |-> "skip", rows |-> <<>>]

\* load_parcel_data, lines 157-215.
LoadBody(config, gfile, dfile) ==
    IF TryGeojson(config, gfile).st = "df"
    THEN [src |-> "geojson", rows |-> TryGeojson(config, gfile).rows]
    ELSE IF TryFlat(dfile).st = "df"
    THEN [src |-> "flat", rows |-> TryFlat(dfile).rows]
    ELSE [src |-> "synthetic", rows |-> GenerateSampleData]

NotLoaded == [src |-> "none", rows |-> <<>>]

LoadGeoFeatures ==
    { [properties |-> BaseBag,
       geometry |-> [type |-> "Polygon", rings |-> <<Tri>>, polys |-> <<>>]],
      [properties |-> BaseBag,
       geometry |-> [type |-> "Point", rings |-> <<>>, polys |-> <<>>]],
      [properties |-> Id @@ [ACRES |-> Str("abc")],
       geometry |-> [type |-> "Polygon", rings |-> <<One>>, polys |-> <<>>]] }

GeoFiles ==
    { NoFile, [NoFile EXCEPT !.st = "corrupt"] }
    \cup { [st |-> "ok", doc |-> [type |-> "FeatureCollection", features |-> fs], rows |-> <<>>] :
              fs \in Batches(LoadGeoFeatures) }
    \cup { [st |-> "ok", doc |-> [type |-> "Feature", features |-> <<>>], rows |-> <<>>] }

OkDataFiles == { [st |-> "ok", doc |-> NoInput, rows |-> b] : b \in FlatBatches }

DataFiles == { NoFile, [NoFile EXCEPT !.st = "corrupt"] } \cup OkDataFiles

\* st.cache_data.clear() with every result kept.
KeepCache(m) == m

\* st.cache_data.clear()
ClearCache(m) == {}

\* main() line 649: the page calls load_parcel_data(num_parcels, seed).  The
\* decorator returns the result kept for these arguments when there is
\* one; otherwise the body runs on the files as they are and its result is
\* kept.  The result carries the num_parcels it was computed for.
LoadParcelData ==
    /\ LET hit == { e \in memo : e.num_parcels = numParcels }
           df  == LoadBody(configFile, geojsonFile, dataFile) @@
                  [num_parcels |-> numParcels]
       IN  IF hit # {}
           THEN /\ loaded' = (CHOOSE e \in hit : TRUE).df
                /\ memo' = memo
           ELSE /\ loaded' = df
                /\ memo' = memo \cup {[num_parcels |-> numParcels, df |-> df]}
    /\ UNCHANGED <<configFile, geojsonFile, dataFile, numParcels, normVars,
                   indexVars, restVars>>

\* Data Management, "Save Preference": rewrites config.json and clears the
\* memoised dataset.
SavePreference ==
    /\ \E c \in {"true", "false"} : configFile' = c
    /\ memo' = ClearCache(memo)
    /\ loaded' = NotLoaded
    /\ UNCHANGED <<geojsonFile, dataFile, numParcels, normVars, indexVars, restVars>>

\* Data Management, "Save as Main Dataset": an uploaded list of records
\* becomes lanesville_parcels.json.
SaveAsMainDataset ==
    /\ \E f \in OkDataFiles : dataFile' = f
    /\ memo' = ClearCache(memo)
    /\ loaded' = NotLoaded
    /\ UNCHANGED <<configFile, geojsonFile, numParcels, normVars, indexVars, restVars>>

\* Sidebar, "Clear & Use Sample": removes lanesville_parcels.json.
ClearAndUseSample ==
    /\ dataFile.st # "absent"
    /\ dataFile' = NoFile
    /\ memo' = ClearCache(memo)
    /\ loaded' = NotLoaded
    /\ UNCHANGED <<configFile, geojsonFile, numParcels, normVars, indexVars, restVars>>

LoadInit == /\ configFile \in ConfigStates
            /\ geojsonFile \in GeoFiles
            /\ dataFile \in DataFiles
            /\ loaded = NotLoaded
            /\ memo = {}
            /\ numParcels = 500
            /\ NormIdle
            /\ IndexIdle
            /\ RestIdle
LoadNext == LoadParcelData \/ SavePreference \/ SaveAsMainDataset \/ ClearAndUseSample
SpecLoad == LoadInit /\ [][LoadNext]_vars

(***************************************************************************)
(* SpecMemo: the main page and the buttons of the sidebar and of the Data  *)
(* Management page that change what load_parcel_data reads.  While such a  *)
(* button's page runs, the main page shows nothing (loaded is NotLoaded).  *)
(***************************************************************************)
\* Values of the "Sample Parcels" slider.
SampleCounts == {500, 600}

\* The record lists downloaded or uploaded in this specification: none, one
\* full record, and one record without the owner column.
MemoFiles ==
    { [st |-> "ok", doc |-> NoInput, rows |-> b] :
        b \in { <<>>, <<FullRecord(Str("Doe"), Num(5))>>,
                <<[parcel_id |-> Str("86.1-1-4"), latitude |-> Num(5),
                   longitude |-> Num(7)]>> } }

\* Sidebar, lines 797-817: the slider, shown while lanesville_parcels.json
\* does not hold records, moved to another value.
ChangeSampleParcels ==
    /\ ~(dataFile.st = "ok" /\ dataFile.rows # <<>>)
    /\ \E n \in SampleCounts \ {numParcels} : numParcels' = n
    /\ memo' = ClearCache(memo)
    /\ loaded' = NotLoaded
    /\ UNCHANGED <<configFile, geojsonFile, dataFile, normVars, indexVars, restVars>>

\* Data Management, lines 233-273: a download that returned records has
\* written them to lanesville_parcels.json.
DownloadSucceeds ==
    /\ \E f \in MemoFiles : f.rows # <<>> /\ dataFile' = f
    /\ memo' = ClearCache(memo)
    /\ loaded' = NotLoaded
    /\ UNCHANGED <<configFile, geojsonFile, numParcels, normVars, indexVars, restVars>>

\* Data Management, "Clear All Cached Data": unlinks every file
\* get_cache_info lists, that is every data/*.json, config.json among them.
\* The button is there when the list is not empty.
ClearAllCachedData ==
    /\ dataFile.st # "absent" \/ configFile # "absent"
    /\ dataFile' = NoFile
    /\ configFile' = "absent"
    /\ memo' = ClearCache(memo)
    /\ loaded' = NotLoaded
    /\ UNCHANGED <<geojsonFile, numParcels, normVars, indexVars, restVars>>

\* Data Management, "Save to Cache": the uploaded list of records is written
\* under data/ to the name typed: a name of its own, lanesville_parcels.json
\* or config.json (which then holds no preference that can be read).
SaveToCache(save_name) ==
    /\ CASE save_name = "lanesville_parcels.json" ->
               /\ \E f \in MemoFiles : dataFile' = f
               /\ UNCHANGED configFile
         [] save_name = "config.json" ->
               /\ configFile' = "corrupt"
               /\ UNCHANGED dataFile
         [] OTHER -> UNCHANGED <<configFile, dataFile>>
    /\ memo' = ClearCache(memo)
    /\ loaded' = NotLoaded
    /\ UNCHANGED <<geojsonFile, numParcels, normVars, indexVars, restVars>>

MemoInit ==
    /\ configFile \in ConfigStates
    /\ geojsonFile \in { NoFile,
                          [st |-> "ok",
                           doc |-> [type |-> "FeatureCollection",
                                    features |-> << [properties |-> BaseBag,
                                                     geometry |-> [type |-> "Polygon",
                                                                   rings |-> <<Tri>>,
                                                                   polys |-> <<>>]] >>],
                           rows |-> <<>>] }
    /\ dataFile = NoFile
    /\ loaded = NotLoaded
    /\ memo = {}
    /\ numParcels = 500
    /\ NormIdle
    /\ IndexIdle
    /\ RestIdle

MemoNext ==
    \/ LoadParcelData
    \/ SavePreference
    \/ SaveAsMainDataset /\ dataFile' \in MemoFiles
    \/ ClearAndUseSample
    \/ ChangeSampleParcels
    \/ DownloadSucceeds
    \/ ClearAllCachedData
    \/ \E save_name \in {"uploaded_parcels.json", "lanesville_parcels.json",
                          "config.json"} : SaveToCache(save_name)

SpecMemo == MemoInit /\ [][MemoNext]_vars

(***************************************************************************)
(* The spatial index.  A coordinate is a float64: NaN, or a number of      *)
(* ticks of 10^-(Decimals+1) degree, so that rounding to Decimals places   *)
(* is rounding to a multiple of ten ticks.  A record set keeps only the    *)
(* two columns get_spatial_index reads.                                    *)
(***************************************************************************)
Decimals == 6
Degree   == 10 ^ (Decimals + 1)

NaN      == [nan |-> TRUE, t |-> 0]
Tick(t)  == [nan |-> FALSE, t |-> t]
At(lat, lon) == [latitude |-> Tick(lat), longitude |-> Tick(lon)]
Missing  == [latitude |-> NaN, longitude |-> NaN]

\* np.round(x, 6) = rint(x * 1e6) / 1e6: to the nearest multiple of ten
\* ticks, halves to the even one.  The result keeps the sign bit of x, so a
\* negative x that rounds to zero is -0.0.  v is the value, neg the sign bit
\* of a zero: together with nan they determine the eight bytes tobytes()
\* emits.
Round6(c) ==
    IF c.nan THEN [nan |-> TRUE, neg |-> FALSE, v |-> 0]
    ELSE LET a == Abs(c.t)
             q == a \div 10
             r == a % 10
             m == IF r > 5 \/ (r = 5 /\ q % 2 = 1) THEN q + 1 ELSE q
         IN  [nan |-> FALSE,
              neg |-> (m = 0 /\ c.t < 0),
              v   |-> IF c.t < 0 THEN 0 - 10 * m ELSE 10 * m]

\* coords_rounded, row by row.
CoordsRounded(df) ==
    [i \in 1..Len(df) |-> <<Round6(df[i].latitude), Round6(df[i].longitude)>>]

\* A fingerprint of the rounded rows that forgets their order and number.
HashKeyUnordered(df) == { CoordsRounded(df)[i] : i \in 1..Len(df) }

\* hash_key: the digest of the bytes of coords_rounded.  Distinct byte
\* sequences are given distinct keys.
HashKey(df) == CoordsRounded(df)

\* The points NearestNeighbors.fit receives: the rounded coordinates.
FitPoints(df) ==
    [i \in 1..Len(df) |-> <<Round6(df[i].latitude).v, Round6(df[i].longitude).v>>]

\* check_array inside fit raises ValueError on a NaN.
FitRaises(df) == \E i \in 1..Len(df) : df[i].latitude.nan \/ df[i].longitude.nan

\* get_spatial_index with a cache that keeps only the session's latest index.
GetSpatialIndexLatestOnly(store, nbuilt, s, df) ==
    IF Len(df) = 0
    THEN [raised |-> FALSE, nn |-> NoIndex, used_cache |-> FALSE,
          cache |-> store, built |-> nbuilt]
    ELSE LET hash_key == HashKey(df)
             hit == { e \in store : e.sid = s /\ e.key = hash_key }
         IN  IF hit # {}
             THEN [raised |-> FALSE, nn |-> (CHOOSE e \in hit : TRUE).nn,
                   used_cache |-> TRUE, cache |-> store, built |-> nbuilt]
             ELSE IF FitRaises(df)
             THEN [raised |-> TRUE, nn |-> NoIndex, used_cache |-> FALSE,
                   cache |-> store, built |-> nbuilt]
             ELSE LET nn == [id |-> nbuilt + 1, pts |-> FitPoints(df)]
                  IN  [raised |-> FALSE, nn |-> nn, used_cache |-> FALSE,
                       cache |-> { e \in store : e.sid # s } \cup
                                 {[sid |-> s, key |-> hash_key, nn |-> nn]},
                       built |-> nbuilt + 1]

\* get_spatial_index(df), called in session s with the cache entries store
\* and nbuilt indexes fitted so far.  nn = NoIndex is the None handle.
GetSpatialIndex(store, nbuilt, s, df) ==
    IF Len(df) = 0
    THEN [raised |-> FALSE, nn |-> NoIndex, used_cache |-> FALSE,
          cache |-> store, built |-> nbuilt]
    ELSE LET hash_key == HashKey(df)
             hit == { e \in store : e.sid = s /\ e.key = hash_key }
         IN  IF hit # {}
             THEN [raised |-> FALSE, nn |-> (CHOOSE e \in hit : TRUE).nn,
                   used_cache |-> TRUE, cache |-> store, built |-> nbuilt]
             ELSE IF FitRaises(df)
             THEN [raised |-> TRUE, nn |-> NoIndex, used_cache |-> FALSE,
                   cache |-> store, built |-> nbuilt]
             ELSE LET nn == [id |-> nbuilt + 1, pts |-> FitPoints(df)]
                  IN  [raised |-> FALSE, nn |-> nn, used_cache |-> FALSE,
                       cache |-> store \cup
                                 {[sid |-> s, key |-> hash_key, nn |-> nn]},
                       built |-> nbuilt + 1]

\* The square of a distance of d ticks, as <<high, low>> digits in base 10^8
\* (the square of a degree does not fit a machine word).
Square(d) ==
    LET a     == Abs(d)
        dh    == a \div 10000
        dl    == a % 10000
        cross == 2 * dh * dl
        low   == (cross % 10000) * 10000 + dl * dl
    IN  <<dh * dh + cross \div 10000 + low \div 100000000, low % 100000000>>

Plus(x, y) ==
    <<x[1] + y[1] + (x[2] + y[2]) \div 100000000, (x[2] + y[2]) % 100000000>>

Less(x, y) == x[1] < y[1] \/ (x[1] = y[1] /\ x[2] < y[2])

\* The haversine metric orders the points of the record sets below, all
\* within a degree of latitude 0, as the squared planar distance does.
Distance(p, q) == Plus(Square(p[1] - q[1]), Square(p[2] - q[2]))

\* The positions kneighbors(target, n_neighbors=1) may return: those of the
\* fitted points no other fitted point is nearer to the target than.
KNeighbors(pts, target) ==
    { i \in 1..Len(pts) :
        \A j \in 1..Len(pts) :
            ~Less(Distance(pts[j], target), Distance(pts[i], target)) }

(***************************************************************************)
(* SpecIndex: browser sessions calling get_spatial_index and clicking      *)
(* 'Find Nearest'.                                                         *)
(***************************************************************************)
MaxSessions == 2
MaxClicks   == 2

Sessions == 1..MaxSessions

\* Record sets whose every row has its centroid, as the loaders leave them
\* and the sidebar filters narrow them.
FilteredFrames ==
    { <<>>,
      <<At(1, 0)>>, <<At(2, 0)>>, <<At(-1, 0)>>, <<At(12, 0)>>, <<At(1, 12)>>,
      <<At(14, 14), At(16, 4)>>, <<At(16, 4), At(14, 14)>>,
      <<At(10, 0), At(-10, 0)>>,
      <<At(0, 0), At(0, Degree), At(Degree, Degree)>> }

\* Record sets with rows whose coordinates are missing.
Frames ==
    FilteredFrames \cup
    { <<Missing>>, <<Missing, Missing>>, <<At(1, 0), Missing>> }

\* target_lat, target_lon, in ticks: the inputs show 6 decimals.
Targets == { <<0, 0>>, <<10, 0>>, <<Degree \div 10, Degree \div 10>> }

\* The record of one get_spatial_index call.
CallOf(s, df, r) ==
    [n |-> ret.n + 1, sid |-> s, df |-> df, raised |-> r.raised, nn |-> r.nn,
     used_cache |-> r.used_cache]

\* get_spatial_index(df) called in session s.
CallGetSpatialIndex(s, df) ==
    /\ clicks < MaxClicks
    /\ LET r == GetSpatialIndex(cache, built, s, df)
       IN  /\ cache' = r.cache
           /\ built' = r.built
           /\ prev' = ret
           /\ ret' = CallOf(s, df, r)
    /\ clicks' = clicks + 1
    /\ UNCHANGED <<found, normVars, loadVars, restVars>>

\* The 'Find Nearest' button of session s, the page showing filtered_df and
\* the two number inputs holding target.
FindNearest(s, filtered_df, target) ==
    /\ clicks < MaxClicks
    /\ clicks' = clicks + 1
    /\ IF Len(filtered_df) = 0
       THEN /\ found' = [sid |-> s, st |-> "no_parcels", df |-> filtered_df,
                         idx |-> 0, query |-> target]
            /\ UNCHANGED <<cache, built, prev, ret>>
       ELSE LET r == GetSpatialIndex(cache, built, s, filtered_df)
            IN  /\ cache' = r.cache
                /\ built' = r.built
                /\ prev' = ret
                /\ ret' = CallOf(s, filtered_df, r)
                /\ IF r.raised
                   THEN found' = [sid |-> s, st |-> "raised", df |-> filtered_df,
                                  idx |-> 0, query |-> target]
                   ELSE IF r.nn = NoIndex
                   THEN found' = [sid |-> s, st |-> "no_coordinates",
                                  df |-> filtered_df, idx |-> 0, query |-> target]
                   ELSE \E idx \in KNeighbors(r.nn.pts, target) :
                            found' = [sid |-> s, st |-> "nearest",
                                      df |-> filtered_df, idx |-> idx,
                                      query |-> target]
    /\ UNCHANGED <<normVars, loadVars, restVars>>

IndexInit == /\ NormIdle
             /\ LoadIdle
             /\ IndexIdle
             /\ RestIdle

IndexNext ==
    \/ \E s \in Sessions, df \in Frames : CallGetSpatialIndex(s, df)
    \/ \E s \in Sessions, df \in FilteredFrames, target \in Targets :
           FindNearest(s, df, target)

SpecIndex == IndexInit /\ [][IndexNext]_vars

(***************************************************************************)
(* SpecRace: get_spatial_index calls that overlap in time.  Each caller    *)
(* runs the statements of the function in order; the steps of different    *)
(* callers interleave freely.  A dict lookup and a dict assignment are     *)
(* each one step (they are atomic under the interpreter lock).             *)
(***************************************************************************)
MaxCallers == 2

Callers == 1..MaxCallers

\* The record sets the overlapping calls and the calls before them work on.
RaceFrames ==
    { <<At(1, 0)>>, <<At(14, 14), At(16, 4)>>, <<At(16, 4), At(14, 14)>> }

\* An assignment that keeps the entry a key already has.
StoreEntryIfAbsent(store, s, hash_key, nn) ==
    IF \E e \in store : e.sid = s /\ e.key = hash_key
    THEN store
    ELSE store \cup {[sid |-> s, key |-> hash_key, nn |-> nn]}

\* cache[hash_key] = nn in the cache of session s.
StoreEntry(store, s, hash_key, nn) ==
    { e \in store : ~(e.sid = s /\ e.key = hash_key) } \cup
    {[sid |-> s, key |-> hash_key, nn |-> nn]}

\* A caller of session s about to run get_spatial_index.
NewCaller(s) ==
    [sid |-> s, pc |-> "check", nn |-> NoIndex, used_cache |-> FALSE,
     raised |-> FALSE]

\* The callers enter get_spatial_index(df), caller c in session ss[c].
StartRace(ss, df) ==
    /\ race.st = "idle"
    /\ race' = [st |-> "running", df |-> df, before |-> cache,
                callers |-> [c \in Callers |-> NewCaller(ss[c])],
                writes |-> <<>>]
    /\ UNCHANGED <<normVars, loadVars, indexVars, fetchVars>>

\* Caller c: the size test, the fingerprint and the cache lookup.
CheckCache(c) ==
    /\ race.st = "running"
    /\ race.callers[c].pc = "check"
    /\ LET me  == race.callers[c]
           hit == { e \in cache : e.sid = me.sid /\ e.key = HashKey(race.df) }
       IN  race' = [race EXCEPT !.callers[c] =
                       IF Len(race.df) = 0
                       THEN [me EXCEPT !.pc = "done"]
                       ELSE IF hit # {}
                       THEN [me EXCEPT !.pc = "done",
                                       !.nn = (CHOOSE e \in hit : TRUE).nn,
                                       !.used_cache = TRUE]
                       ELSE [me EXCEPT !.pc = "build"]]
    /\ UNCHANGED <<normVars, loadVars, indexVars, fetchVars>>

\* Caller c: NearestNeighbors(...) and fit.
FitIndex(c) ==
    /\ race.st = "running"
    /\ race.callers[c].pc = "build"
    /\ LET me == race.callers[c]
       IN  IF FitRaises(race.df)
           THEN /\ race' = [race EXCEPT !.callers[c] =
                                [me EXCEPT !.pc = "done", !.raised = TRUE]]
                /\ built' = built
           ELSE /\ race' = [race EXCEPT !.callers[c] =
                                [me EXCEPT !.pc = "store",
                                           !.nn = [id |-> built + 1,
                                                   pts |-> FitPoints(race.df)]]]
                /\ built' = built + 1
    /\ UNCHANGED <<clicks, cache, prev, ret, found, normVars, loadVars, fetchVars>>

\* Caller c: the assignment to the cache and the return.
StoreIndex(c) ==
    /\ race.st = "running"
    /\ race.callers[c].pc = "store"
    /\ LET me == race.callers[c]
       IN  /\ cache' = StoreEntry(cache, me.sid, HashKey(race.df), me.nn)
           /\ race' = [race EXCEPT !.callers[c] = [me EXCEPT !.pc = "done"],
                                   !.writes = Append(@, [c |-> c, sid |-> me.sid,
                                                         nn |-> me.nn])]
    /\ UNCHANGED <<clicks, built, prev, ret, found, normVars, loadVars, fetchVars>>

RaceInit == /\ NormIdle
            /\ LoadIdle
            /\ IndexIdle
            /\ RestIdle

RaceNext ==
    \/ \E s \in Sessions, df \in RaceFrames :
           race.st = "idle" /\ CallGetSpatialIndex(s, df)
    \/ \E ss \in [Callers -> Sessions], df \in RaceFrames : StartRace(ss, df)
    \/ \E c \in Callers : CheckCache(c)
    \/ \E c \in Callers : FitIndex(c)
    \/ \E c \in Callers : StoreIndex(c)

SpecRace == RaceInit /\ [][RaceNext]_vars

(***************************************************************************)
(* SpecFetch: one fetch_greene_county_data call against the ArcGIS         *)
(* service.  The service is the environment: it chooses the reply to the   *)
(* count request and to every page request.  A record of the service is    *)
(* its position 1, 2, ... in service order, and a page of features is the  *)
(* pair <<lo, hi>> of the positions it holds.                              *)
(***************************************************************************)
BATCH_SIZE == 1000

Min(a, b) == IF a < b THEN a ELSE b

\* len(features) of a page.
PageLen(page) == page[2] - page[1] + 1

\* The municipality arguments of the model; "" is None.
Municipalities == {"", "Lanesville"}

\* f"{municipality.lower().replace(' ', '_')}_parcels.json", or the county
\* file's name when no municipality is given.
CacheFileName(municipality) ==
    CASE municipality = ""           -> "greene_county_parcels.json"
      [] municipality = "Lanesville" -> "lanesville_parcels.json"
      [] municipality = "Hunter"     -> "hunter_parcels.json"

\* load_from_file(filename): None, a raised JSONDecodeError, or a frame of
\* n rows.
LoadFromFile(fs, filename) ==
    CASE fs[filename].st = "absent"  -> [st |-> "none", n |-> 0]
      [] fs[filename].st = "corrupt" -> [st |-> "raise", n |-> 0]
      [] OTHER                       -> [st |-> "df", n |-> fs[filename].n]

\* max_records arguments: None, 0 and limits below, at and above a page.
Limits == {NullV, Num(0), Num(1000), Num(1500)}

\* Replies to the count request: a failure of any kind, or a count.
CountReplies ==
    {[ok |-> FALSE, count |-> 0]} \cup
    {[ok |-> TRUE, count |-> n] : n \in {0, 1, 1000, 2500}}

\* Replies to a page request.  "exact" is the requested slice; "short" one
\* record less; "empty" no features; "api_error" a body with an "error"
\* key; the others are the exceptions requests and json raise.
Outcomes ==
    {"exact", "short", "empty", "api_error", "timeout", "request_error",
     "json_error"}

\* What the fetched features turn out to be when process_features runs:
\* all with a ring and numeric fields, all without geometry, or with a
\* field no number can be read from.
Qualities == {"good", "no_geometry", "malformed"}

\* Lines 490-500: the cache check of fetch_greene_county_data.
StartFetch(use_cache, max_records, municipality) ==
    /\ fetch.pc = "idle"
    /\ LET cache_file == CacheFileName(municipality)
           df == LoadFromFile(files, cache_file)
           me == [fetch EXCEPT !.before = files,
                               !.use_cache = use_cache,
                               !.max_records = max_records,
                               !.cache_file = cache_file]
       IN  fetch' = IF use_cache /\ df.st = "raise"
                    THEN [me EXCEPT !.pc = "done", !.result = "raise"]
                    ELSE IF use_cache /\ df.st = "df" /\ df.n > 0
                    THEN [me EXCEPT !.pc = "done", !.result = "cached",
                                    !.rows = df.n]
                    ELSE [me EXCEPT !.pc = "count"]
    /\ UNCHANGED <<files, normVars, loadVars, indexVars, raceVars>>

\* Lines 181-197: get_record_count, the test for 0 and total_to_fetch.
GetRecordCount(reply) ==
    /\ fetch.pc = "count"
    /\ LET total_count == IF reply.ok THEN reply.count ELSE 0
           me == [fetch EXCEPT !.counted = TRUE, !.total_count = total_count]
       IN  fetch' = IF total_count = 0
                    THEN [me EXCEPT !.pc = "done", !.result = "none"]
                    ELSE [me EXCEPT !.pc = "page",
                                    !.total_to_fetch =
                                        IF Truthy(fetch.max_records)
                                        THEN Min(total_count, fetch.max_records.n)
                                        ELSE total_count]
    /\ UNCHANGED <<files, normVars, loadVars, indexVars, raceVars>>

\* Lines 203-252: one pass of the while loop, the service answering with
\* outcome.
RequestPage(outcome) ==
    /\ fetch.pc = "page"
    /\ LET offset == fetch.offset
           count  == Min(BATCH_SIZE, fetch.total_to_fetch - offset)
           hi     == Min(offset + count, fetch.total_count)
           page   == IF outcome = "exact" THEN <<offset + 1, hi>>
                                          ELSE <<offset + 1, hi - 1>>
           entry  == [offset |-> offset, count |-> count, outcome |-> outcome]
           log    == IF /\ fetch.requests # <<>>
                        /\ fetch.requests[Len(fetch.requests)] = entry
                     THEN fetch.requests
                     ELSE Append(fetch.requests, entry)
           me     == [fetch EXCEPT !.requests = log]
       IN  /\ outcome = "short" => hi - 1 >= offset + 1
           /\ fetch' =
                 IF outcome = "timeout"
                 THEN [me EXCEPT !.pc = "backoff"]
                 ELSE IF outcome \in {"api_error", "request_error",
                                      "json_error", "empty"}
                 THEN [me EXCEPT !.pc = "process"]
                 ELSE IF PageLen(page) < BATCH_SIZE
                 THEN [me EXCEPT !.pc = "process",
                                 !.all_features = Append(@, page)]
                 ELSE [me EXCEPT !.all_features = Append(@, page),
                                 !.offset = offset + BATCH_SIZE,
                                 !.pc = IF offset + BATCH_SIZE < fetch.total_to_fetch
                                        THEN "page" ELSE "process"]
    /\ UNCHANGED <<files, normVars, loadVars, indexVars, raceVars>>

\* Lines 239-243: time.sleep(2) and continue.
RetryAfterTimeout ==
    /\ fetch.pc = "backoff"
    /\ fetch' = [fetch EXCEPT !.pc = "page"]
    /\ UNCHANGED <<files, normVars, loadVars, indexVars, raceVars>>

\* Lines 254-270 and 509-518: the end of fetch_all_parcels and the test of
\* its result in fetch_greene_county_data.
ProcessAllFeatures(quality) ==
    /\ fetch.pc = "process"
    /\ LET me == [fetch EXCEPT !.called = TRUE, !.handed = fetch.all_features]
           n  == SumSeq([i \in 1..Len(fetch.all_features) |->
                            PageLen(fetch.all_features[i])])
       IN  fetch' =
             IF fetch.all_features = <<>>
             THEN [fetch EXCEPT !.pc = "done", !.result = "none"]
             ELSE IF quality = "malformed"
             THEN [me EXCEPT !.pc = "done", !.result = "raise"]
             ELSE IF quality = "no_geometry"
             THEN [me EXCEPT !.pc = "done", !.result = "none"]
             ELSE [me EXCEPT !.pc = "save", !.rows = n]
    /\ UNCHANGED <<files, normVars, loadVars, indexVars, raceVars>>

\* Lines 511-516: save_to_file to the cache file and to
\* lanesville_parcels.json, and the return.
SaveToFile ==
    /\ fetch.pc = "save"
    /\ files' = [files EXCEPT ![fetch.cache_file] = FileOf(fetch.rows, "fetched"),
                              !["lanesville_parcels.json"] =
                                  FileOf(fetch.rows, "fetched")]
    /\ fetch' = [fetch EXCEPT !.pc = "done", !.result = "df"]
    /\ UNCHANGED <<normVars, loadVars, indexVars, raceVars>>

\* The files a run may find: the two cache files in any state, next to an
\* older file of another area.
FetchInit ==
    /\ fetch = NoFetch
    /\ files \in { f \in [FileNames -> {FileAbsent, FileCorrupt, FileOf(0, "old"),
                                         FileOf(5, "old")}] :
                      f["hunter_parcels.json"] = FileOf(5, "old") }
    /\ NormIdle
    /\ LoadIdle
    /\ IndexIdle
    /\ RaceIdle

FetchNext ==
    \/ \E use_cache \in BOOLEAN, max_records \in Limits, m \in Municipalities :
           StartFetch(use_cache, max_records, m)
    \/ \E reply \in CountReplies : GetRecordCount(reply)
    \/ \E outcome \in Outcomes : RequestPage(outcome)
    \/ RetryAfterTimeout
    \/ \E quality \in Qualities : ProcessAllFeatures(quality)
    \/ SaveToFile

SpecFetch == FetchInit /\ [][FetchNext]_vars

\* The script thread runs on: whichever step is enabled is taken in the end.
\* Nothing is assumed of the service.
SpecFetchFair == SpecFetch /\ WF_vars(FetchNext)

(***************************************************************************)
(* Properties of the normalisers (checked under SpecNorm).                 *)
(*                                                                         *)
(* The ring a feature's record is built from, read off the input: the      *)
(* first ring of a Polygon, the first ring of the first polygon of a       *)
(* MultiPolygon, rings[0] of an ArcGIS geometry; empty when there is none. *)
(***************************************************************************)
SelectedRing(f) ==
    IF nInput.type = "features"
    THEN IF f.geometry.kind = "rings" /\ f.geometry.rings # <<>>
         THEN f.geometry.rings[1] ELSE <<>>
    ELSE IF f.geometry.type = "Polygon" /\ f.geometry.rings # <<>>
         THEN f.geometry.rings[1]
    ELSE IF f.geometry.type = "MultiPolygon" /\ f.geometry.polys # <<>>
            /\ f.geometry.polys[1] # <<>>
         THEN f.geometry.polys[1][1]
    ELSE <<>>

\* The key/value bag of a feature of the batch.
BagOf(f) == IF nInput.type = "features" THEN f.attributes ELSE f.properties

Normalised == nPath \in {"geojson", "arcgis"} /\ nResult.st = "df"

\* Input positions whose feature has a resolvable centroid, and the output
\* position the i-th input feature lands on when every such feature is kept.
Resolvable == {i \in 1..Len(nInput.features) : SelectedRing(nInput.features[i]) # <<>>}
RowOf(i)   == Cardinality({j \in Resolvable : j <= i})

Smaller(a, b) == IF a < b THEN a ELSE b

\* C6: in the GeoJSON path and in the ArcGIS path the coordinates of an
\* output record are exactly the first min(n, 100) points of the selected
\* ring, in source order, each pair swapped to [lat, lon].
C6_CoordinatesSwappedAndCapped ==
    Normalised =>
        /\ Len(nResult.rows) = Cardinality(Resolvable)
        /\ \A i \in Resolvable :
              LET ring == SelectedRing(nInput.features[i])
                  out  == nResult.rows[RowOf(i)].coordinates
              IN  /\ Len(out) = Smaller(Len(ring), 100)
                  /\ \A j \in 1..Len(out) : out[j] = <<ring[j][2], ring[j][1]>>

\* A batch of two kept features, one ring longer than the cap and one shorter.
C6_Witness ==
    /\ Normalised
    /\ nPath = "arcgis"
    /\ \E i, j \in Resolvable :
          /\ Len(SelectedRing(nInput.features[i])) > 100
          /\ Len(nResult.rows[RowOf(i)].coordinates) = 100
          /\ Len(SelectedRing(nInput.features[j])) = 3
          /\ nResult.rows[RowOf(j)].coordinates = <<<<0, 0>>, <<0, 6>>, <<9, 0>>>>

\* C7 (as claimed): the centroid of every output record is the arithmetic
\* mean of the latitudes and of the longitudes of all the vertices of the
\* selected ring, in the GeoJSON path as in the ArcGIS path, whatever the
\* ring's length.
C7_CentroidIsMeanOfWholeRing ==
    Normalised =>
        \A i \in Resolvable :
            LET ring == SelectedRing(nInput.features[i])
                row  == nResult.rows[RowOf(i)]
            IN  /\ row.latitude  = Num(Mean(Column(ring, 2)))
                /\ row.longitude = Num(Mean(Column(ring, 1)))

\* C8: no output record of any of the three paths lacks a latitude or a
\* longitude, and the output has exactly one record per input record with
\* a resolvable centroid.
C8_NoMissingCentroid ==
    /\ nResult.st = "df" =>
          \A k \in 1..Len(nResult.rows) :
              /\ nResult.rows[k].latitude.k = "num"
              /\ nResult.rows[k].longitude.k = "num"
    /\ Normalised => Len(nResult.rows) = Cardinality(Resolvable)
    /\ (nPath = "flat" /\ nResult.st = "df") =>
          Len(nResult.rows) =
              Cardinality({i \in 1..Len(nInput.features) :
                              /\ "latitude" \in DOMAIN nInput.features[i]
                              /\ "longitude" \in DOMAIN nInput.features[i]
                              /\ nInput.features[i].latitude # NullV
                              /\ nInput.features[i].longitude # NullV})

\* A batch that loses a record without geometry and keeps another.
C8_Witness ==
    /\ Normalised
    /\ Len(nInput.features) = 2
    /\ Len(nResult.rows) = 1
    /\ Cardinality(Resolvable) = 1

\* The first key of the order whose value is present and truthy.
FirstGood(bag, order) ==
    LET good == {i \in 1..Len(order) :
                    order[i] \in DOMAIN bag /\ bag[order[i]] \notin {NullV, Str("")}}
    IN  IF good = {} THEN Str("Unknown")
        ELSE bag[order[CHOOSE i \in good : \A j \in good : i <= j]]

\* C9: the owner of a normalised record is the first present-and-truthy
\* value in the key order of its path (ArcGIS: OWNER, Owner, OWNER1,
\* OWNER_NAME, NAME, OwnerName; GeoJSON: owner, OWNER, OWNER_NAME), else
\* "Unknown"; a key present with null or "" is skipped.
C9_OwnerFallbackOrder ==
    Normalised =>
        \A i \in Resolvable :
            nResult.rows[RowOf(i)].owner =
                FirstGood(BagOf(nInput.features[i]),
                          IF nPath = "arcgis"
                          THEN <<"OWNER", "Owner", "OWNER1", "OWNER_NAME", "NAME", "OwnerName">>
                          ELSE <<"owner", "OWNER", "OWNER_NAME">>)

\* An ArcGIS bag with OWNER present but empty and OWNER_NAME set.
C9_Witness ==
    /\ Normalised
    /\ nPath = "arcgis"
    /\ \E i \in Resolvable :
          /\ BagOf(nInput.features[i]).OBJECTID = Num(1)
          /\ "OWNER" \in DOMAIN BagOf(nInput.features[i])
          /\ BagOf(nInput.features[i]).OWNER = Str("")
          /\ nResult.rows[RowOf(i)].owner = Str("Roe")

\* The description table read at a key, "" when the key is not in it.
TableAt(key) == IF key \in DOMAIN PROPERTY_CLASS_DESC THEN PROPERTY_CLASS_DESC[key] ELSE ""

\* C10: in the ArcGIS path property_class_desc is the table entry of the
\* exact code, else that of its first two characters followed by "0", else
\* that of its first character followed by "00", else "Unknown"; an empty
\* code gives "Unknown"; "910" gives "Private Forest" and "915" the same.
C10_ClassDescriptionOrder ==
    (nPath = "arcgis" /\ nResult.st = "df") =>
        \A k \in 1..Len(nResult.rows) :
            LET code  == nResult.rows[k].property_class
                desc  == nResult.rows[k].property_class_desc
                exact == TableAt(code)
                two   == TableAt(Prefix(code, 2) \o <<"0">>)
                one   == TableAt(Prefix(code, 1) \o <<"0", "0">>)
            IN  /\ desc.k = "str"
                /\ desc.s = (IF code = <<>> THEN "Unknown"
                             ELSE IF exact # "" THEN exact
                             ELSE IF two # "" THEN two
                             ELSE IF one # "" THEN one
                             ELSE "Unknown")
                /\ code = <<"9", "1", "0">> => desc.s = "Private Forest"
                /\ code = <<"9", "1", "5">> => desc.s = "Private Forest"
                /\ code = <<>> => desc.s = "Unknown"

\* A batch holding the code "915" and a code no level resolves.
C10_Witness ==
    /\ nPath = "arcgis"
    /\ nResult.st = "df"
    /\ \E k, m \in 1..Len(nResult.rows) :
          /\ nResult.rows[k].property_class = <<"9", "1", "5">>
          /\ nResult.rows[k].property_class_desc = Str("Private Forest")
          /\ nResult.rows[m].property_class = <<"A", "1">>
          /\ nResult.rows[m].property_class_desc = Str("Unknown")

\* C11 (as claimed): in the ArcGIS path a record whose property_class is
\* "999", a code that is not a key of the description table, gets
\* property_class_desc "Unknown".
C11_Code999Unknown ==
    (nPath = "arcgis" /\ nResult.st = "df") =>
        \A k \in 1..Len(nResult.rows) :
            nResult.rows[k].property_class = <<"9", "9", "9">> =>
                nResult.rows[k].property_class_desc = Str("Unknown")

\* C11 (amended): "999" is not a key of the description table, but "990"
\* is: in the ArcGIS path a record whose property_class is "999" gets the
\* description of "990", "Town Land", through the two-character fallback;
\* a code with no table entry at any of the three levels, such as "A1",
\* gets "Unknown".
C11_Code999TownLand ==
    /\ <<"9", "9", "9">> \notin DOMAIN PROPERTY_CLASS_DESC
    /\ (nPath = "arcgis" /\ nResult.st = "df") =>
          \A k \in 1..Len(nResult.rows) :
              /\ nResult.rows[k].property_class = <<"9", "9", "9">> =>
                    /\ nResult.rows[k].property_class_desc = Str("Town Land")
                    /\ nResult.rows[k].property_class_desc =
                          Str(PROPERTY_CLASS_DESC[<<"9", "9", "0">>])
              /\ nResult.rows[k].property_class = <<"A", "1">> =>
                    nResult.rows[k].property_class_desc = Str("Unknown")

\* An ArcGIS batch with a "999" record and an "A1" record, both kept.
C11_Witness ==
    /\ nPath = "arcgis"
    /\ nResult.st = "df"
    /\ \E k, m \in 1..Len(nResult.rows) :
          /\ nResult.rows[k].property_class = <<"9", "9", "9">>
          /\ nResult.rows[k].property_class_desc = Str("Town Land")
          /\ nResult.rows[m].property_class = <<"A", "1">>

\* C12 (as claimed): in every record produced by any of the three
\* ingestion paths acreage, assessed_value and land_value are at least 0,
\* whatever numbers the source record carries.
C12_AmountsNeverNegative ==
    nResult.st = "df" =>
        \A k \in 1..Len(nResult.rows) :
            /\ nResult.rows[k].acreage >= 0
            /\ nResult.rows[k].assessed_value >= 0
            /\ nPath \in {"geojson", "arcgis"} => nResult.rows[k].land_value >= 0

\* A str that does not spell a number.
NonNumeric(v) == v.k = "str" /\ v.s # "" /\ ~IsDigits(Chars(v.s))

\* The acreage of the i-th input record as the source gives it: the first
\* truthy value in the key order of the path.
SourceAcreage(i) ==
    IF nInput.type = "flat" THEN Get(nInput.features[i], "acreage")
    ELSE FirstTruthy(BagOf(nInput.features[i]),
                     IF nInput.type = "features"
                     THEN <<"ACRES", "Acres", "CALC_ACRES", "ACREAGE", "GIS_ACRES">>
                     ELSE <<"acreage", "CALC_ACRES", "ACRES">>,
                     Num(0))

\* Every geometry of the batch can be read (no empty first polygon).
GeometryReadable ==
    nInput.type = "FeatureCollection" =>
        \A i \in 1..Len(nInput.features) :
            ~( /\ nInput.features[i].geometry.type = "MultiPolygon"
               /\ nInput.features[i].geometry.polys # <<>>
               /\ nInput.features[i].geometry.polys[1] = <<>> )

\* The output position of the i-th record of a flat batch.
FlatRowOf(i) == Cardinality({j \in 1..i : HasLatLon(nInput.features[j])})

\* C13 (as claimed): in each of the three ingestion paths a record whose
\* acreage is a non-numeric string (such as "abc") does not make the
\* normaliser raise, and its normalised acreage is 0.
C13_NonNumericBecomesZero ==
    (nPath # "none" /\ GeometryReadable) =>
        \A i \in 1..Len(nInput.features) :
            NonNumeric(SourceAcreage(i)) =>
                /\ nResult.st # "raise"
                /\ (Normalised /\ i \in Resolvable) =>
                       nResult.rows[RowOf(i)].acreage = 0
                /\ (nPath = "flat" /\ nResult.st = "df"
                                   /\ HasLatLon(nInput.features[i])) =>
                       nResult.rows[FlatRowOf(i)].acreage = 0

\* The i-th feature of the batch is malformed: an unparseable numeric
\* field, or a geometry whose first polygon has no ring to read.
Malformed(i) ==
    \/ NonNumeric(SourceAcreage(i))
    \/ /\ nInput.type = "FeatureCollection"
       /\ nInput.features[i].geometry.type = "MultiPolygon"
       /\ nInput.features[i].geometry.polys # <<>>
       /\ nInput.features[i].geometry.polys[1] = <<>>

\* The well-formed features of the batch that have a centroid.
WellFormed == {i \in Resolvable : ~Malformed(i)}

\* C14 (as claimed): a malformed feature in a batch does not abort
\* geojson_to_df or process_features: when the batch also has well-formed
\* features, the call returns, and its result holds one record for each
\* well-formed feature that has a centroid, in batch order.
C14_MalformedFeatureSkipped ==
    ( /\ nPath \in {"geojson", "arcgis"}
      /\ nInput.type \in {"FeatureCollection", "features"}
      /\ \E i \in 1..Len(nInput.features) : Malformed(i)
      /\ WellFormed # {} ) =>
        /\ nResult.st = "df"
        /\ Len(nResult.rows) = Cardinality(WellFormed)
        /\ \A i \in WellFormed :
              nResult.rows[Cardinality({j \in WellFormed : j <= i})].coordinates
                  = SwapCapped(SelectedRing(nInput.features[i]))

\* C15 (as claimed): normalising an empty batch gives an empty record set
\* and no error, in geojson_to_df (a FeatureCollection without features)
\* and in process_features (an empty feature list).
C15_EmptyBatchEmptyResult ==
    ( /\ nPath \in {"geojson", "arcgis"}
      /\ nInput.type \in {"FeatureCollection", "features"}
      /\ nInput.features = <<>> ) =>
        nResult = [st |-> "df", rows |-> <<>>]

\* C16 (as claimed): in the ArcGIS path and in the GeoJSON path a record
\* whose source carries no improvement value has improvement_value =
\* max(0, assessed_value - land_value), which is never negative.
C16_ImprovementDerived ==
    Normalised =>
        \A i \in Resolvable :
            LET row == nResult.rows[RowOf(i)]
            IN  ~Truthy(Get(BagOf(nInput.features[i]), "improvement_value")) =>
                    /\ row.improvement_value =
                          (IF row.assessed_value - row.land_value > 0
                           THEN row.assessed_value - row.land_value ELSE 0)
                    /\ row.improvement_value >= 0

\* C17 (as claimed): in the GeoJSON path a record whose source annual_taxes
\* is missing or falsy has annual_taxes = assessed_value x 0.025, that is
\* 25 thousandths of a dollar per dollar assessed: 2500 dollars for an
\* assessed_value of 100000.
C17_AnnualTaxesDefault ==
    (nPath = "geojson" /\ nResult.st = "df") =>
        \A i \in Resolvable :
            LET row == nResult.rows[RowOf(i)]
            IN  ~Truthy(Get(BagOf(nInput.features[i]), "annual_taxes")) =>
                    /\ row.annual_taxes = 25 * row.assessed_value
                    /\ row.assessed_value = 100000 => row.annual_taxes = 2500 * 1000

\* C18 (as claimed): in the GeoJSON path a record whose feature carries no
\* description of its own gets the description table's entry for its
\* property class when the class is a key of the table ("210" gives "One
\* Family Residential"), and "Unknown" only when it is not.
C18_GeojsonDescriptionFromTable ==
    (nPath = "geojson" /\ nResult.st = "df") =>
        \A i \in Resolvable :
            LET row  == nResult.rows[RowOf(i)]
                bag  == BagOf(nInput.features[i])
                code == row.property_class
            IN  ( /\ ~Truthy(Get(bag, "property_class_desc"))
                  /\ ~Truthy(Get(bag, "CLASS_DESC")) ) =>
                    /\ code \in DOMAIN PROPERTY_CLASS_DESC =>
                          row.property_class_desc = Str(PROPERTY_CLASS_DESC[code])
                    /\ code = <<"2", "1", "0">> =>
                          row.property_class_desc = Str("One Family Residential")
                    /\ row.property_class_desc = Str("Unknown") =>
                          code \notin DOMAIN PROPERTY_CLASS_DESC

\* C25 (as claimed): in the ArcGIS path a feature without resolvable
\* geometry is assembled like any other and removed only by the final
\* filter: the output of process_features holds exactly the input features
\* whose rings[0] is non-empty, one record each, in input order.
C25_DroppedOnlyByFinalFilter ==
    (nPath = "arcgis" /\ nInput.type = "features") =>
        /\ nResult.st = "df"
        /\ Len(nResult.rows) = Cardinality(Resolvable)
        /\ \A i \in Resolvable :
              LET row == nResult.rows[RowOf(i)]
              IN  /\ row.coordinates = SwapCapped(SelectedRing(nInput.features[i]))
                  /\ row.owner = FirstTruthy(nInput.features[i].attributes,
                                             ArcOwnerKeys, Str("Unknown"))

\* C23: process_features on the one feature with attributes OWNER "Doe,
\* Jane", TOTAL_AV 100000, PROP_CLASS "210" and the ring (-74.28, 42.18),
\* (-74.27, 42.18), (-74.27, 42.19), (-74.28, 42.19) yields exactly one
\* record: that owner, assessed_value 100000, property_class "210",
\* description "One Family Residential", the four vertices as (lat, lon)
\* in source order, the centroid at their mean (42.185, -74.275),
\* land_value 0, improvement_value 100000, annual_taxes 2500 dollars,
\* county "Greene" and tax_year 2024.
C23_ArcgisScenario ==
    (nPath = "arcgis" /\ nInput.features = <<ScenarioFeature>>) =>
        /\ nResult.st = "df"
        /\ Len(nResult.rows) = 1
        /\ LET row == nResult.rows[1]
           IN  /\ row.owner = Str("Doe, Jane")
               /\ row.assessed_value = 100000
               /\ row.property_class = <<"2", "1", "0">>
               /\ row.property_class_desc = Str("One Family Residential")
               /\ row.coordinates = << <<42180, -74280>>, <<42180, -74270>>,
                                       <<42190, -74270>>, <<42190, -74280>> >>
               /\ row.latitude = Num(42185)
               /\ row.longitude = Num(-74275)
               /\ 4 * row.latitude.n = 42180 + 42180 + 42190 + 42190
               /\ 4 * row.longitude.n = 0 - (74280 + 74270 + 74270 + 74280)
               /\ row.land_value = 0
               /\ row.improvement_value = 100000
               /\ row.annual_taxes = 1000 * 2500
               /\ row.county = Str("Greene")
               /\ row.tax_year = 2024

\* process_features has run on the scenario's feature.
C23_Witness ==
    /\ nPath = "arcgis"
    /\ nInput.features = <<ScenarioFeature>>
    /\ nResult.st = "df"

(***************************************************************************)
(* Properties of load_parcel_data (checked under SpecLoad).                *)
(***************************************************************************)
\* The records of the flat cache that carry a latitude and a longitude.
LocatedRecords == SelectSeq(dataFile.rows, HasLatLon)

\* C1 (as claimed): load_parcel_data serves the GeoJSON dataset when GeoJSON
\* is enabled, the file is readable and converts to at least one record;
\* otherwise the flat cache when that file is readable, has the four
\* required columns and keeps at least one row after cleaning; otherwise
\* the synthetic dataset; and it always returns one of the three.
C1_SourcePriority ==
    loaded # NotLoaded =>
        LET conv    == GeojsonToDf(geojsonFile.doc)
            geoOk   == /\ configFile # "false"
                       /\ geojsonFile.st = "ok"
                       /\ conv.st = "df"
                       /\ Len(conv.rows) >= 1
            flatOk  == /\ dataFile.st = "ok"
                       /\ {"latitude", "longitude", "owner", "parcel_id"}
                             \subseteq Columns(dataFile.rows)
                       /\ Len(LocatedRecords) >= 1
        IN  loaded.src = (IF geoOk THEN "geojson"
                          ELSE IF flatOk THEN "flat"
                          ELSE "synthetic")

\* C3 (as claimed): when the flat cache is the source in turn (GeoJSON did
\* not serve), a batch without the owner key in any record is rejected as a
\* whole and the next source is served; a batch that has the four required
\* keys, in which a record that has its coordinates has owner null, is
\* served, its records with a non-null owner keeping it and the others
\* getting owner "Unknown".
C3_OwnerKeyRequired ==
    (loaded # NotLoaded /\ loaded.src # "geojson" /\ dataFile.st = "ok") =>
        /\ "owner" \notin Columns(dataFile.rows) => loaded.src = "synthetic"
        /\ ( /\ {"latitude", "longitude", "owner", "parcel_id"}
                   \subseteq Columns(dataFile.rows)
             /\ \E k \in 1..Len(LocatedRecords) :
                   /\ "owner" \in DOMAIN LocatedRecords[k]
                   /\ LocatedRecords[k].owner = NullV ) =>
               /\ loaded.src = "flat"
               /\ Len(loaded.rows) = Len(LocatedRecords)
               /\ \A k \in 1..Len(LocatedRecords) :
                     loaded.rows[k].owner =
                         (IF "owner" \in DOMAIN LocatedRecords[k]
                             /\ LocatedRecords[k].owner # NullV
                          THEN LocatedRecords[k].owner
                          ELSE Str("Unknown"))

\* C19 (as claimed): when the flat cache is the source in turn, its batch is
\* rejected only when one of the four required keys is missing from it: a
\* batch that has the four and a record with its coordinates is served,
\* one row per such record, the fields acreage, assessed_value,
\* property_class, property_class_desc and mailing_zip taking the defaults
\* 0, 0, "999", "Unknown" and "" where the batch does not have them.
C19_OptionalColumnsDefaulted ==
    ( /\ loaded # NotLoaded /\ loaded.src # "geojson" /\ dataFile.st = "ok"
      /\ {"latitude", "longitude", "owner", "parcel_id"}
             \subseteq Columns(dataFile.rows)
      /\ LocatedRecords # <<>> ) =>
        /\ loaded.src = "flat"
        /\ Len(loaded.rows) = Len(LocatedRecords)
        /\ \A k \in 1..Len(LocatedRecords) :
              LET src == LocatedRecords[k]
                  row == loaded.rows[k]
              IN  /\ "acreage" \notin DOMAIN src => row.acreage = 0
                  /\ "assessed_value" \notin DOMAIN src => row.assessed_value = 0
                  /\ "property_class" \notin DOMAIN src =>
                        row.property_class = <<"9", "9", "9">>
                  /\ "property_class_desc" \notin DOMAIN src =>
                        row.property_class_desc = Str("Unknown")
                  /\ "mailing_zip" \notin DOMAIN src => row.mailing_zip = Str("")

C30_ClearKeepsPreference ==
    [][ (dataFile.st # "absent" /\ dataFile'.st = "absent") =>
            /\ UseGeojson(configFile') = UseGeojson(configFile)
            /\ configFile = "false" => configFile' = "false"
      ]_vars

(***************************************************************************)
(* Properties of the spatial index (checked under SpecIndex).              *)
(***************************************************************************)
\* All the coordinate values of a record set, in row order.
Values(df) ==
    [k \in 1..(2 * Len(df)) |->
        IF k % 2 = 1 THEN df[(k + 1) \div 2].latitude
                     ELSE df[k \div 2].longitude]

Located(df) == \A k \in 1..(2 * Len(df)) : ~Values(df)[k].nan

\* Two record sets with the same values after rounding to 6 decimals.
SameRounded(a, b) ==
    /\ Len(a) = Len(b)
    /\ Len(a) >= 1
    /\ Located(a) /\ Located(b)
    /\ \A k \in 1..(2 * Len(a)) :
          Round6(Values(a)[k]).v = Round6(Values(b)[k]).v

\* b is a with one coordinate altered by more than 1e-6 degree.
OneAltered(a, b) ==
    /\ Len(a) = Len(b)
    /\ Located(a) /\ Located(b)
    /\ \E k \in 1..(2 * Len(a)) :
          /\ Abs(Values(a)[k].t - Values(b)[k].t) > 10
          /\ \A m \in 1..(2 * Len(a)) : m # k => Values(a)[m] = Values(b)[m]

\* C2 (as claimed): two successive get_spatial_index calls of a session,
\* the first on a coordinate set not yet cached: when the second set equals
\* the first after rounding to 6 decimals, row by row, the first call
\* returns was_cached = false and the second the same index with
\* was_cached = true; when the second set is the first with one coordinate
\* altered by more than 1e-6 degree, the second call returns
\* was_cached = false and a newly built index.
C2_FingerprintStable ==
    (prev.n = 1 /\ ret.n = 2 /\ prev.sid = ret.sid) =>
        /\ SameRounded(prev.df, ret.df) =>
              /\ ~prev.used_cache
              /\ ret.used_cache
              /\ ret.nn = prev.nn
              /\ ret.nn # NoIndex
        /\ OneAltered(prev.df, ret.df) =>
              /\ ~ret.used_cache
              /\ ~ret.raised
              /\ ret.nn # NoIndex
              /\ ret.nn.id # prev.nn.id

\* C4 (as claimed): get_spatial_index on a record set with no valid
\* coordinates, empty or with every latitude and longitude missing, returns
\* the null handle with was_cached = false and does not raise; 'Find
\* Nearest' on such a set reports that there is no result and does not fail.
C4_NoValidCoordinates ==
    /\ (ret.n > 0 /\ \A k \in 1..(2 * Len(ret.df)) : Values(ret.df)[k].nan) =>
          /\ ~ret.raised
          /\ ret.nn = NoIndex
          /\ ~ret.used_cache
    /\ (found.st # "none" /\ Len(found.df) = 0) =>
          found.st \in {"no_parcels", "no_coordinates"}

\* C5 (as claimed): 'Find Nearest' on a non-empty record set returns one
\* record position, and no other record's centroid is strictly closer to
\* the query point than the returned record's; on the centroids (0,0),
\* (0,1), (1,1) with the query (0.1, 0.1) it returns the record at (0,0).
C5_NearestRecord ==
    (found.st # "none" /\ Len(found.df) >= 1) =>
        /\ found.st = "nearest"
        /\ found.idx \in 1..Len(found.df)
        /\ \A j \in 1..Len(found.df) :
              ~Less(Distance(<<found.df[j].latitude.t, found.df[j].longitude.t>>,
                             found.query),
                    Distance(<<found.df[found.idx].latitude.t,
                               found.df[found.idx].longitude.t>>,
                             found.query))
        /\ ( /\ found.df = <<At(0, 0), At(0, Degree), At(Degree, Degree)>>
             /\ found.query = <<Degree \div 10, Degree \div 10>> )
           => found.idx = 1

\* C20: the spatial-index cache is append-only.  Every step keeps every
\* entry, fingerprint and index object alike, and no fingerprint of a
\* session has two entries; a get_spatial_index call whose fingerprint is
\* not yet in the session's cache, on a non-empty record set that can be
\* fitted, adds exactly one entry, the returned index under that
\* fingerprint; a call that hits, that returns the null handle or that
\* raises leaves the cache unchanged.
C20_CacheAppendOnly ==
    [][ /\ cache \subseteq cache'
        /\ \A e, f \in cache' : (e.sid = f.sid /\ e.key = f.key) => e = f
        /\ ret' = ret => cache' = cache
        /\ ret' # ret =>
              LET key   == HashKey(ret'.df)
                  known == \E e \in cache : e.sid = ret'.sid /\ e.key = key
              IN  IF Len(ret'.df) >= 1 /\ ~known /\ ~ret'.raised
                  THEN /\ cache' = cache \cup
                                   {[sid |-> ret'.sid, key |-> key, nn |-> ret'.nn]}
                       /\ Cardinality(cache') = Cardinality(cache) + 1
                       /\ ret'.nn # NoIndex
                  ELSE cache' = cache
      ]_vars

\* A session that has inserted two fingerprints, both still cached.
C20_Witness ==
    /\ ret.n = 2
    /\ prev.sid = ret.sid
    /\ Cardinality({e \in cache : e.sid = ret.sid}) = 2
    /\ \E e \in cache : e.nn = prev.nn /\ e.key = HashKey(prev.df)

\* C21 (as claimed): one process-wide cache keyed by fingerprint, shared by
\* all sessions: after one session has built the index for a coordinate
\* set, a get_spatial_index call from a different session with an identical
\* coordinate set returns that cached index with was_cached = true.
C21_CacheSharedAcrossSessions ==
    ( /\ prev.n >= 1
      /\ ret.n = prev.n + 1
      /\ prev.sid # ret.sid
      /\ prev.nn # NoIndex
      /\ ret.df = prev.df )
    => /\ ret.used_cache
       /\ ret.nn = prev.nn

\* C28: whatever calls and clicks came before, the index get_spatial_index
\* hands back, cached or newly built, was fitted on a set with the length,
\* the rounded coordinates and the row order of the current record set; so
\* the position 'Find Nearest' gets from it is a position of the current
\* filtered set, and the record there has, rounded to 6 decimals, the
\* coordinates of the point the index matched.
C28_IndexMatchesCurrentSet ==
    /\ (ret.n > 0 /\ ret.nn # NoIndex) =>
          /\ Len(ret.nn.pts) = Len(ret.df)
          /\ ret.nn.pts = FitPoints(ret.df)
    /\ (found.st = "nearest" /\ ret.df = found.df /\ ret.sid = found.sid) =>
          /\ found.idx \in 1..Len(found.df)
          /\ ret.nn.pts[found.idx] =
                 <<Round6(found.df[found.idx].latitude).v,
                   Round6(found.df[found.idx].longitude).v>>

\* 'Find Nearest' was served from the cache, by an index built for another
\* record set with the same fingerprint.
C28_Witness ==
    /\ found.st = "nearest"
    /\ ret.df = found.df
    /\ ret.used_cache
    /\ prev.n > 0
    /\ prev.df # ret.df
    /\ prev.nn = ret.nn

(***************************************************************************)
(* Properties of overlapping get_spatial_index calls (under SpecRace).     *)
(***************************************************************************)
\* The store steps taken so far in the cache of session s.
WritesIn(s) == SelectSeq(race.writes, LAMBDA w : w.sid = s)

\* The callers entered while no caller's cache held the fingerprint.
RaceOnNewFingerprint ==
    /\ race.st = "running"
    /\ \A c \in Callers :
          ~\E e \in race.before :
              e.sid = race.callers[c].sid /\ e.key = HashKey(race.df)

\* C22: get_spatial_index calls that overlap on one coordinate set whose
\* fingerprint was not cached when they entered are a benign race: in
\* every interleaving of their check, build and store steps every caller
\* that has returned holds an index fitted on that coordinate set, the
\* cache holds under that fingerprint the index of the last caller that
\* stored there (and nothing before any has), and no entry of another
\* fingerprint is added, removed or changed; no step waits for a lock.
C22_BenignRace ==
    RaceOnNewFingerprint =>
        LET key == HashKey(race.df)
        IN  /\ \A c \in Callers :
                  race.callers[c].pc = "done" =>
                      /\ ~race.callers[c].raised
                      /\ race.callers[c].nn # NoIndex
                      /\ race.callers[c].nn.pts = FitPoints(race.df)
            /\ \A c \in Callers :
                  LET s == race.callers[c].sid
                      w == WritesIn(s)
                  IN  { e \in cache : e.sid = s /\ e.key = key } =
                          IF w = <<>> THEN {}
                          ELSE {[sid |-> s, key |-> key, nn |-> w[Len(w)].nn]}
            /\ { e \in cache : e.key # key } =
               { e \in race.before : e.key # key }

\* Two callers of one session have both built and stored, the second store
\* replacing the first, next to an older entry of another fingerprint.
C22_Witness ==
    /\ RaceOnNewFingerprint
    /\ \A c \in Callers : race.callers[c].pc = "done"
    /\ \A c \in Callers : race.callers[c].sid = race.callers[1].sid
    /\ Len(race.writes) = 2
    /\ race.writes[1].nn # race.writes[2].nn
    /\ \E e \in cache : e.key = HashKey(race.df) /\ e.nn = race.writes[2].nn
    /\ \E e \in race.before : e.sid = race.callers[1].sid

(***************************************************************************)
(* Properties of the fetcher (checked under SpecFetch and SpecFetchFair).  *)
(***************************************************************************)
\* C24 (as claimed): the fetch always terminates, whatever the service
\* does: every run of the fetcher, a request that times out on every
\* attempt included, reaches its end, with a DataFrame or with None.
C24_FetchAlwaysTerminates == <>(fetch.pc = "done")

\* The service has reported a count and answered every page request so far
\* with the requested slice or with a timeout.
ServiceWellBehaved ==
    /\ fetch.counted
    /\ \A i \in 1..Len(fetch.requests) :
          fetch.requests[i].outcome \in {"exact", "timeout"}

\* The number of records the claim says are fetched.
ClaimedTotal ==
    IF fetch.max_records = NullV THEN fetch.total_count
    ELSE Min(fetch.total_count, fetch.max_records.n)

\* The pages hold the records 1..t, each once and in service order.
HoldsFirst(pages, t) ==
    IF t = 0 THEN pages = <<>>
    ELSE /\ pages # <<>>
         /\ pages[1][1] = 1
         /\ pages[Len(pages)][2] = t
         /\ \A i \in 1..Len(pages) : pages[i][1] <= pages[i][2]
         /\ \A i \in 1..(Len(pages) - 1) : pages[i + 1][1] = pages[i][2] + 1

\* C26 (as claimed): against a service that reports a count N > 0 and
\* answers each page request with exactly the requested slice,
\* fetch_all_parcels requests the offsets 0, 1000, 2000, ... in increasing
\* order, repeats an offset only after a timeout of that same request, and
\* hands process_features exactly the first T = min(N, max_records)
\* records (T = N when max_records is None), each once and in service
\* order; it returns None without requesting any page when the reported
\* count is 0.
C26_PagesInOrder ==
    ServiceWellBehaved =>
        /\ \A i \in 1..Len(fetch.requests) :
              LET before == { j \in 1..(i - 1) :
                                fetch.requests[j].outcome = "exact" }
              IN  /\ fetch.requests[i].offset = BATCH_SIZE * Cardinality(before)
                  /\ (i > 1 /\ fetch.requests[i].offset =
                                  fetch.requests[i - 1].offset)
                        => fetch.requests[i - 1].outcome = "timeout"
        /\ (fetch.total_count > 0 /\ fetch.pc \in {"save", "done"}) =>
              /\ fetch.called
              /\ HoldsFirst(fetch.handed, ClaimedTotal)
        /\ fetch.total_count = 0 =>
              /\ fetch.requests = <<>>
              /\ fetch.pc = "done"
              /\ fetch.result = "none"

\* C27 (as claimed): fetch_greene_county_data with use_cache = true and a
\* non-empty cache file for the requested area returns the cached records
\* without contacting the API and without writing any file; otherwise it
\* fetches, and on a non-empty result it overwrites both the area's cache
\* file and lanesville_parcels.json with the fetched records, while on a
\* failed or empty fetch it returns None and leaves every file unchanged.
C27_CacheThenFetch ==
    fetch.pc = "done" =>
        IF fetch.use_cache /\ fetch.before[fetch.cache_file].st = "ok"
                          /\ fetch.before[fetch.cache_file].n > 0
        THEN /\ fetch.result = "cached"
             /\ fetch.rows = fetch.before[fetch.cache_file].n
             /\ ~fetch.counted
             /\ fetch.requests = <<>>
             /\ files = fetch.before
        ELSE /\ fetch.counted
             /\ fetch.result \in {"df", "none"}
             /\ fetch.result = "df" =>
                   /\ fetch.rows > 0
                   /\ files = [fetch.before EXCEPT
                                  ![fetch.cache_file] = FileOf(fetch.rows, "fetched"),
                                  !["lanesville_parcels.json"] =
                                      FileOf(fetch.rows, "fetched")]
             /\ fetch.result = "none" => files = fetch.before

====
